---------------------------- MODULE Spec2Model ----------------------------
(***************************************************************************)
(* Model of the grid-to-grid forecast remapping of fecsep                   *)
(* (src/fecsep/utils.py: _forecast_mapping_generic and its helpers          *)
(* _map_exact_inside_cells, _map_overlapping_cells, calc_cell_area,         *)
(* create_polygon; src/code/utils.py holds a second copy of the same code). *)
(*                                                                         *)
(* A cell is the tuple <<lon1, lat1, lon2, lat2>> of the code               *)
(* ([lon1, lat1, lon2, lat2], bottom left and top right corner), in whole   *)
(* degrees.  Sequences are 1-based here and 0-based in the code.            *)
(* A rate is an exact non-negative rational <<n, d>> in lowest terms        *)
(* (d > 0): the code's float64 arithmetic is modelled without rounding.     *)
(***************************************************************************)
EXTENDS Integers, Sequences, FiniteSets, TLC

VARIABLES
    target_grid,      \* argument: target cells, [n x 4]
    fcst_grid,        \* argument: source cells, [n x 4]
    fcst_rate,        \* argument: source rates, [n x mbins] (integers)
    ncpu,             \* argument: None or the number of workers
    magnitudes,       \* forecast_gridded.magnitudes: the magnitude bin labels
    pc,               \* position in _forecast_mapping_generic
    phase,            \* which of the five pool.map calls is current (0: none yet)
    pools_open,       \* the pools created and not yet closed
    pools_created,    \* the pools created so far
    queue,            \* task indices of the current map not yet taken by a worker
    running,          \* task indices a worker is computing
    slots,            \* result slot of every task of the current map
    finished,         \* task indices of the current map in completion order
    exact_rate,       \* result of the first map: <<rate sum, exact cells>> per target
    exact_cells,      \* concatenated consumed source indices
    exact_rate_tgt,   \* exact-containment rate per target
    fcst_rate_poly,   \* rates of the source cells left
    lft_fcst_grid,    \* bounds of the source cells left
    fcst_grid_poly,   \* polygons of the source cells left
    fcst_cell_area,   \* areas of the source cells left
    target_grid_poly, \* polygons of the target cells
    rate_tgt,         \* overlap rate per target
    map_rate,         \* the value _forecast_mapping_generic returns
    target_forecast,  \* the forecast forecast_mapping returns
    fn,               \* the function of utils.py a caller calls
    fn_args,          \* its arguments
    fn_result,        \* "pending", or how the call ended and with what
    markdown,         \* MarkdownReport.markdown: the cells of the document
    toc,              \* MarkdownReport.toc: <<title, level, locator>> entries
    has_title,        \* MarkdownReport.has_title
    has_introduction, \* MarkdownReport.has_introduction (FALSE: not set yet)
    calls             \* history: the methods called on the report, in order

args == <<target_grid, fcst_grid, fcst_rate, ncpu, magnitudes>>

pool == <<phase, pools_open, pools_created, queue, running, slots, finished>>

locals == <<exact_rate, exact_cells, exact_rate_tgt, fcst_rate_poly,
            lft_fcst_grid, fcst_grid_poly, fcst_cell_area, target_grid_poly,
            rate_tgt, map_rate, target_forecast>>

report == <<markdown, toc, has_title, has_introduction, calls>>

util == <<fn, fn_args, fn_result, report>>

vars == <<args, pc, pool, locals, util>>

-----------------------------------------------------------------------------
(* Bounds of the inputs that Init enumerates.                              *)

MaxLon == 2
MaxLat == 2
MaxSrc == 3
MaxTgt == 2
MaxRate == 1
MaxBins == 2
MaxCpu == 2
MaxIntervals == 3
MaxCalls == 4

\* Python's None as the value of ncpu (a worker count is at least 1)
None == 0

-----------------------------------------------------------------------------
(* Exact rational arithmetic.                                              *)

RECURSIVE GCD(_, _)
GCD(a, b) == IF b = 0 THEN a ELSE GCD(b, a % b)

Abs(x) == IF x < 0 THEN 0 - x ELSE x

\* n / d in lowest terms, the denominator positive (d is never 0)
Rat(n, d) ==
    IF n = 0 THEN <<0, 1>>
    ELSE LET g == GCD(Abs(n), Abs(d))
             sg == IF d < 0 THEN 0 - 1 ELSE 1
         IN <<(sg * n) \div g, (sg * d) \div g>>

RInt(n) == <<n, 1>>

RAdd(p, q) == Rat(p[1] * (q[2] \div GCD(p[2], q[2])) + q[1] * (p[2] \div GCD(p[2], q[2])),
                  p[2] * (q[2] \div GCD(p[2], q[2])))

RMul(p, q) == Rat(p[1] * q[1], p[2] * q[2])

RZero == <<0, 1>>

\* numpy.zeros(n)
Zeros(n) == [m \in 1..n |-> RZero]

\* a + b of two one-dimensional numpy arrays: element-wise, an array of
\* length 1 being broadcast over the other.
\* (Two lengths that differ and are both above 1 do not broadcast: numpy
\* raises; the empty array stands for that, and no call of the code gets there.)
VecAdd(a, b) ==
    IF Len(a) = Len(b) THEN [m \in 1..Len(a) |-> RAdd(a[m], b[m])]
    ELSE IF Len(a) = 1 THEN [m \in 1..Len(b) |-> RAdd(a[1], b[m])]
    ELSE IF Len(b) = 1 THEN [m \in 1..Len(a) |-> RAdd(a[m], b[1])]
    ELSE <<>>

\* mutant of VecScale: the area weight is dropped
VecScale_unweighted(r, k) == r

\* r * k of a numpy array r and a scalar k
VecScale(r, k) == [m \in 1..Len(r) |-> RMul(r[m], k)]

-----------------------------------------------------------------------------
(* Geometry: the library calls the code makes.                             *)

\* Integer stand-in for sin(lat) on whole degrees in [-90, 90]: odd, strictly
\* increasing and concave on [0, 90], as the sine is.
SinQ(lat) == IF lat >= 0 THEN lat * (180 - lat) ELSE 0 - ((0 - lat) * (180 + lat))

\* csep.core.regions.geographical_area_from_bounds: 0 for a rectangle of no
\* width or no height, else the area of the latitude strip
\* 2 pi R^2 (sin lat2 - sin lat1) times the share (lon2 - lon1) / 360 of the
\* full circle; kept here without the constant factor 2 pi R^2 / 360.
geographical_area_from_bounds(lon1, lat1, lon2, lat2) ==
    IF lon1 = lon2 \/ lat1 = lat2 THEN 0
    ELSE (SinQ(lat2) - SinQ(lat1)) * (lon2 - lon1)

\* mutant of calc_cell_area: the planar area, blind to the latitude
calc_cell_area_planar(cell) == (cell[3] - cell[1]) * (cell[4] - cell[2])

\* calc_cell_area(cell)
calc_cell_area(cell) ==
    geographical_area_from_bounds(cell[1], cell[2], cell[3], cell[4])

Max2(x, y) == IF x >= y THEN x ELSE y
Min2(x, y) == IF x <= y THEN x ELSE y

\* create_polygon(fg): the shapely rectangle with corners (fg[0], fg[1]),
\* (fg[2], fg[1]), (fg[2], fg[3]), (fg[0], fg[3]), kept as its bounds
\* (minx, miny, maxx, maxy): the same rectangle whichever corner comes first.
create_polygon(fg) ==
    <<Min2(fg[1], fg[3]), Min2(fg[2], fg[4]), Max2(fg[1], fg[3]), Max2(fg[2], fg[4])>>

\* mutant of intersects: the test is forgotten
intersects_always(a, b) == TRUE

\* shapely's a.intersects(b) for two rectangles: they share at least one
\* point, a boundary point included.
intersects(a, b) ==
    /\ a[1] <= b[3] /\ b[1] <= a[3]
    /\ a[2] <= b[4] /\ b[2] <= a[4]

\* mutant of intersection_bounds: the bounds of the union of the two
intersection_bounds_envelope(a, b) ==
    <<Min2(a[1], b[1]), Min2(a[2], b[2]), Max2(a[3], b[3]), Max2(a[4], b[4])>>

\* mutant of intersection_bounds: the whole of the second rectangle
intersection_bounds_whole(a, b) == b

\* shapely's a.intersection(b).bounds for two rectangles that intersect
\* (a rectangle, a segment or a point).
intersection_bounds(a, b) ==
    <<Max2(a[1], b[1]), Max2(a[2], b[2]), Min2(a[3], b[3]), Min2(a[4], b[4])>>

-----------------------------------------------------------------------------
(* numpy helpers.                                                          *)

\* numpy.shape(fcst_rate)[1]
NumBins(rate) == Len(rate[1])

RECURSIVE WhereFrom(_, _, _)
WhereFrom(c, j, n) ==
    IF j > n THEN <<>>
    ELSE IF c[j] THEN <<j>> \o WhereFrom(c, j + 1, n)
    ELSE WhereFrom(c, j + 1, n)

\* numpy.where(c == True)[0]: the indices of the true entries, ascending
Where(c) == WhereFrom(c, 1, Len(c))

RECURSIVE SumRowsFrom(_, _, _, _)
SumRowsFrom(rate, c, j, acc) ==
    IF j > Len(rate) THEN acc
    ELSE SumRowsFrom(rate, c, j + 1,
                     IF c[j] THEN [m \in 1..Len(acc) |-> RAdd(acc[m], RInt(rate[j][m]))]
                     ELSE acc)

\* mutant of SumRows: the mask is forgotten and every row is summed
SumRows_all(rate, c) == SumRowsFrom(rate, [j \in 1..Len(rate) |-> TRUE], 1, Zeros(NumBins(rate)))

\* numpy.sum(fcst_rate[c], axis=0): zeros(mbins) when no row is selected
SumRows(rate, c) == SumRowsFrom(rate, c, 1, Zeros(NumBins(rate)))

RECURSIVE Concatenate(_)
\* numpy.concatenate(list of index arrays)
Concatenate(arrs) ==
    IF arrs = <<>> THEN <<>> ELSE Head(arrs) \o Concatenate(Tail(arrs))

Range(s) == {s[i] : i \in 1..Len(s)}

RECURSIVE DeleteFrom(_, _, _)
DeleteFrom(arr, idx, j) ==
    IF j > Len(arr) THEN <<>>
    ELSE IF j \in idx THEN DeleteFrom(arr, idx, j + 1)
    ELSE <<arr[j]>> \o DeleteFrom(arr, idx, j + 1)

\* mutant of Delete: the consumed rows are not taken out
Delete_keep(arr, obj) == arr

\* numpy.delete(arr, obj, axis=0): the rows whose index is not in obj, in order
Delete(arr, obj) == DeleteFrom(arr, Range(obj), 1)

\* mutant of DeleteOperand: the rows are taken out of the array given
DeleteOperand_inplace(arr, obj) == Delete(arr, obj)

\* the array numpy.delete(arr, obj, axis=0) was given, after the call:
\* numpy.delete returns a new array and leaves arr as it was
DeleteOperand(arr, obj) == arr

-----------------------------------------------------------------------------
(* The two per-target functions.                                           *)

\* mutant of InsideMask: only the lower left corner is compared
InsideMask_lower(grid, boundary) ==
    [s \in 1..Len(grid) |->
        /\ grid[s][1] >= boundary[1] /\ grid[s][2] >= boundary[2]
        /\ grid[s][1] <= boundary[3] /\ grid[s][2] <= boundary[4]]

\* mutant of InsideMask: cells that merely intersect the boundary are taken
InsideMask_intersects(grid, boundary) ==
    [s \in 1..Len(grid) |->
        /\ grid[s][1] <= boundary[3] /\ boundary[1] <= grid[s][3]
        /\ grid[s][2] <= boundary[4] /\ boundary[2] <= grid[s][4]]

\* mutant of InsideMask: strict comparisons
InsideMask_open(grid, boundary) ==
    [s \in 1..Len(grid) |->
        /\ grid[s][1] > boundary[1] /\ grid[s][2] > boundary[2]
        /\ grid[s][3] < boundary[3] /\ grid[s][4] < boundary[4]]

\* the boolean mask c of _map_exact_inside_cells
InsideMask(grid, boundary) ==
    [s \in 1..Len(grid) |->
        /\ grid[s][1] >= boundary[1] /\ grid[s][2] >= boundary[2]
        /\ grid[s][3] <= boundary[3] /\ grid[s][4] <= boundary[4]]

\* _map_exact_inside_cells(fcst_grid, fcst_rate, boundary): the pair
\* <<sum of the rates of the cells inside boundary, indices of those cells>>
map_exact_inside_cells(grid, rate, boundary) ==
    <<SumRows(rate, InsideMask(grid, boundary)), Where(InsideMask(grid, boundary))>>

RECURSIVE OverlapLoop(_, _, _, _, _, _)
\* the loop of _map_overlapping_cells from index j on, map_rate so far
OverlapLoop(grid_poly, cell_area, rate_poly, target_poly, j, acc) ==
    IF j > Len(grid_poly) THEN acc
    ELSE IF intersects(target_poly, grid_poly[j])
    THEN LET ib == intersection_bounds(target_poly, grid_poly[j])
             shared_area == geographical_area_from_bounds(ib[1], ib[2], ib[3], ib[4])
             share == Rat(shared_area, cell_area[j])
         IN OverlapLoop(grid_poly, cell_area, rate_poly, target_poly, j + 1,
                        VecAdd(acc, VecScale([m \in 1..Len(rate_poly[j]) |->
                                                 RInt(rate_poly[j][m])], share)))
    ELSE OverlapLoop(grid_poly, cell_area, rate_poly, target_poly, j + 1, acc)

\* _map_overlapping_cells(fcst_grid_poly, fcst_cell_area, fcst_rate_poly,
\* target_poly): starts from numpy.array([0])
map_overlapping_cells(grid_poly, cell_area, rate_poly, target_poly) ==
    OverlapLoop(grid_poly, cell_area, rate_poly, target_poly, 1, <<RZero>>)


-----------------------------------------------------------------------------
(* The steps of _forecast_mapping_generic.                                 *)

\* mp.cpu_count() of the machine the call runs on
cpu_count == MaxCpu

\* lines 824-828: the size of every pool the call creates
NumWorkers(n) == IF n = None THEN cpu_count ELSE n

\* the list each of the five pool.map calls is given
TaskList(p) ==
    CASE p = 1 -> target_grid
      [] p = 2 -> lft_fcst_grid
      [] p = 3 -> lft_fcst_grid
      [] p = 4 -> target_grid
      [] p = 5 -> target_grid_poly

\* what the function of map p returns for its i-th item
TaskResult(p, i) ==
    CASE p = 1 -> map_exact_inside_cells(fcst_grid, fcst_rate, target_grid[i])
      [] p = 2 -> create_polygon(lft_fcst_grid[i])
      [] p = 3 -> calc_cell_area(lft_fcst_grid[i])
      [] p = 4 -> create_polygon(target_grid[i])
      [] p = 5 -> map_overlapping_cells(fcst_grid_poly, fcst_cell_area,
                                        fcst_rate_poly, target_grid_poly[i])

\* the function of map p raises on its i-th item: fcst_rate[c] of line 796
\* raises IndexError when the boolean mask c, one entry per cell of
\* fcst_grid, and fcst_rate differ in length
Raises(p, i) == p = 1 /\ Len(fcst_rate) # Len(fcst_grid)

\* mutant of CollectCells: only the indices of the first target are collected
CollectCells_first(er) == er[1][2]

\* lines 835-841: the consumed source indices of all targets, concatenated
CollectCells(er) == Concatenate([i \in 1..Len(er) |-> er[i][2]])

\* lines 835-839: the exact-containment rate of every target
CollectRates(er) == [i \in 1..Len(er) |-> er[i][1]]

\* mutant of ZeroPad: the short vectors are left as they are
ZeroPad_skipped(rt, zero_pad_len) == rt

\* mutant of ZeroPad: the zeros are one entry too long
ZeroPad_long(rt, zero_pad_len) ==
    [i \in 1..Len(rt) |->
        IF Len(rt[i]) < zero_pad_len THEN Zeros(zero_pad_len + 1) ELSE rt[i]]

\* lines 870-873: a target's overlap rate shorter than the number of
\* magnitude bins is replaced by zeros
ZeroPad(rt, zero_pad_len) ==
    [i \in 1..Len(rt) |->
        IF Len(rt[i]) < zero_pad_len THEN Zeros(zero_pad_len) ELSE rt[i]]

\* mutant of MatAdd: the exact-containment rates are left out of the sum
MatAdd_overlap_only(a, b) == a

\* line 875: numpy.add of two [n x mbins] lists
MatAdd(a, b) == [i \in 1..Len(a) |-> VecAdd(a[i], b[i])]


\* forecast_mapping, lines 410-412: the GriddedForecast built on the result
GriddedForecast(data, region, mags) ==
    [data |-> data, region |-> region, magnitudes |-> mags]

-----------------------------------------------------------------------------
(* The inputs.                                                             *)

\* every cell with whole-degree corners in [0, lonmax] x [0, latmax]
CellsIn(lonmax, latmax) ==
    {<<a, b, c, d>> : a \in 0..lonmax, b \in 0..latmax,
                      c \in 0..lonmax, d \in 0..latmax} \cap
    {cell \in (0..lonmax) \X (0..latmax) \X (0..lonmax) \X (0..latmax) :
        cell[1] < cell[3] /\ cell[2] < cell[4]}

\* two cells share interior points
Overlap(a, b) == a[1] < b[3] /\ b[1] < a[3] /\ a[2] < b[4] /\ b[2] < a[4]

NonOverlapping(grid) ==
    \A i, j \in 1..Len(grid) : i < j => ~Overlap(grid[i], grid[j])

\* the partitions of at most k cells out of `cells`: sequences, in any
\* order, of cells no two of which overlap
Partitions(cells, k) ==
    {grid \in UNION {[1..n -> cells] : n \in 0..k} : NonOverlapping(grid)}

\* the rate matrices of n cells: whole rates in 0..MaxRate, 1..MaxBins bins
RateMatrices(n) ==
    UNION {[1..n -> [1..m -> 0..MaxRate]] : m \in 1..MaxBins}

\* rate matrices of n cells whose rates grow by one from cell to cell and
\* from bin to bin, from a base rate on
RampMatrices(n) ==
    {[c \in 1..n |-> [k \in 1..m |-> r + (c - 1) + (k - 1)]] :
        r \in 0..MaxRate, m \in 1..MaxBins}

\* the magnitude labels of a forecast of m bins
Labels(m) == [k \in 1..m |-> 4 + k]

\* The scenarios of the specification and of its testable properties:
\* aggregation of two cells into one, a cell split in half by longitude, a
\* 2 x 2 grid coarsened by the factor 2 in both axes, a 2 x 2 grid of cells
\* of width 2 against a grid offset by half a cell in both axes, and a
\* target grid apart from the source.
Scenarios ==
    { [fg |-> << <<0, 0, 10, 10>>, <<10, 0, 20, 10>> >>,
       fr |-> << <<4, 0>>, <<2, 0>> >>,
       tg |-> << <<0, 0, 20, 10>> >>],
      [fg |-> << <<0, 0, 10, 10>> >>,
       fr |-> << <<8, 0>> >>,
       tg |-> << <<0, 0, 5, 10>>, <<5, 0, 10, 10>> >>],
      [fg |-> << <<0, 0, 1, 1>>, <<1, 0, 2, 1>>, <<0, 1, 1, 2>>, <<1, 1, 2, 2>> >>,
       fr |-> << <<1, 5>>, <<2, 6>>, <<3, 7>>, <<4, 8>> >>,
       tg |-> << <<0, 0, 2, 2>> >>],
      [fg |-> << <<0, 0, 2, 2>>, <<2, 0, 4, 2>>, <<0, 2, 2, 4>>, <<2, 2, 4, 4>> >>,
       fr |-> << <<1, 5>>, <<2, 6>>, <<3, 7>>, <<4, 8>> >>,
       tg |-> << <<1, 1, 3, 3>>, <<3, 1, 5, 3>>, <<1, 3, 3, 5>>, <<3, 3, 5, 5>> >>],
      [fg |-> << <<0, 0, 1, 1>>, <<1, 0, 2, 1>> >>,
       fr |-> << <<3, 1>>, <<2, 0>> >>,
       tg |-> << <<3, 0, 4, 1>>, <<5, 2, 6, 4>> >>] }

\* no report is being written
IdleReport ==
    /\ markdown = <<>> /\ toc = <<>> /\ calls = <<>>
    /\ has_title = FALSE /\ has_introduction = FALSE

InitLocals ==
    /\ pc = "create"
    /\ phase = 0
    /\ pools_open = {}
    /\ pools_created = {}
    /\ queue = <<>>
    /\ running = {}
    /\ slots = <<>>
    /\ finished = <<>>
    /\ exact_rate = <<>>
    /\ exact_cells = <<>>
    /\ exact_rate_tgt = <<>>
    /\ fcst_rate_poly = <<>>
    /\ lft_fcst_grid = <<>>
    /\ fcst_grid_poly = <<>>
    /\ fcst_cell_area = <<>>
    /\ target_grid_poly = <<>>
    /\ rate_tgt = <<>>
    /\ map_rate = <<>>
    /\ target_forecast = <<>>
    /\ fn = "forecast_mapping"
    /\ fn_args = <<>>
    /\ fn_result = [status |-> "pending"]
    /\ IdleReport

\* a call on a scenario
InitScenario ==
    /\ \E sc \in Scenarios :
        /\ target_grid = sc.tg
        /\ fcst_grid = sc.fg
        /\ fcst_rate = sc.fr
    /\ magnitudes = Labels(NumBins(fcst_rate))

\* a call on partitions out of `cells`, with any rates
InitFrom(cells) ==
    /\ target_grid \in Partitions(cells, MaxTgt)
    /\ fcst_grid \in Partitions(cells, MaxSrc) \ {<<>>}
    /\ fcst_rate \in RateMatrices(Len(fcst_grid))
    /\ magnitudes = Labels(NumBins(fcst_rate))

\* a call on partitions of the first latitude band, with ramp rates
InitBand ==
    /\ target_grid \in Partitions(CellsIn(MaxLon, 1), MaxTgt)
    /\ fcst_grid \in Partitions(CellsIn(MaxLon, 1), MaxSrc) \ {<<>>}
    /\ fcst_rate \in RampMatrices(Len(fcst_grid))
    /\ magnitudes = Labels(NumBins(fcst_rate))

-----------------------------------------------------------------------------
(* The call, step by step: five pools, each created, given one map whose   *)
(* tasks the workers take in order and finish in any order, and closed.    *)

\* pool = mp.Pool(ncpu) and the submission of pool.map's tasks
\* (lines 824-832, 848-849, 853-854, 858-859, 863-867)
CreatePool ==
    /\ pc = "create"
    /\ phase' = phase + 1
    /\ pools_open' = pools_open \cup {phase + 1}
    /\ pools_created' = pools_created \cup {phase + 1}
    /\ queue' = [i \in 1..Len(TaskList(phase + 1)) |-> i]
    /\ running' = {}
    /\ slots' = [i \in 1..Len(TaskList(phase + 1)) |-> <<>>]
    /\ finished' = <<>>
    /\ pc' = "map"
    /\ UNCHANGED <<util, args, locals>>

\* an idle worker takes the next task of the map
StartTask ==
    /\ pc = "map"
    /\ queue # <<>>
    /\ Cardinality(running) < NumWorkers(ncpu)
    /\ running' = running \cup {Head(queue)}
    /\ queue' = Tail(queue)
    /\ UNCHANGED <<util, args, pc, phase, pools_open, pools_created, slots, finished, locals>>

\* mutant of ResultSlot: the results are stored in the order of completion
ResultSlot_completion(i, done) == Len(done) + 1

\* the slot a finished task's result is stored in: pool.map returns the
\* results in the order of its input list
ResultSlot(i, done) == i

\* mutant of TaskReady: a task waits for the result of the task after it
TaskReady_chained(i, done) == i >= Len(slots) \/ (i + 1) \in Range(done)

\* what task i of a map needs from the other tasks of the map to finish:
\* nothing, its function binds arrays computed before the pool was created
\* and its item alone
TaskReady(i, done) == TRUE

\* a worker finishes task i; its result goes to the task's slot, or the
\* exception it raised is raised again by pool.map, which ends the call
FinishTask(i) ==
    /\ pc = "map"
    /\ i \in running
    /\ TaskReady(i, finished)
    /\ running' = running \ {i}
    /\ IF Raises(phase, i)
       THEN /\ pc' = "error"
            /\ UNCHANGED <<slots, finished>>
       ELSE /\ slots' = [slots EXCEPT ![ResultSlot(i, finished)] = TaskResult(phase, i)]
            /\ finished' = Append(finished, i)
            /\ UNCHANGED pc
    /\ UNCHANGED <<util, args, phase, pools_open, pools_created, queue, locals>>

\* mutant of MapResults: the list is returned in the order of completion
MapResults_unordered(s, done) == [k \in 1..Len(done) |-> s[done[k]]]

\* the list pool.map returns: the results in the order of the input list
MapResults(s, done) == s

\* mutant of MapBlocks: the map returns at once, as map_async does
MapBlocks_async(q, r) == TRUE

\* pool.map blocks its caller until no task is waiting or running
MapBlocks(q, r) == q = <<>> /\ r = {}

\* pool.map returns once every task has finished; its list is assigned
MapReturn ==
    /\ pc = "map"
    /\ MapBlocks(queue, running)
    /\ pc' = "close"
    /\ exact_rate' = IF phase = 1 THEN MapResults(slots, finished) ELSE exact_rate
    /\ fcst_grid_poly' = IF phase = 2 THEN MapResults(slots, finished) ELSE fcst_grid_poly
    /\ fcst_cell_area' = IF phase = 3 THEN MapResults(slots, finished) ELSE fcst_cell_area
    /\ target_grid_poly' = IF phase = 4 THEN MapResults(slots, finished) ELSE target_grid_poly
    /\ rate_tgt' = IF phase = 5 THEN MapResults(slots, finished) ELSE rate_tgt
    /\ UNCHANGED <<util, args, pool, exact_cells, exact_rate_tgt, fcst_rate_poly,
                   lft_fcst_grid, map_rate, target_forecast>>

\* mutant of AfterClose: the pool is left open
AfterClose_leak(open, p) == open

\* the pools that accept work after pool.close() of pool p
AfterClose(open, p) == open \ {p}

\* pool.close() (lines 833, 850, 855, 860, 868)
ClosePool ==
    /\ pc = "close"
    /\ pools_open' = AfterClose(pools_open, phase)
    /\ pc' = CASE phase = 1 -> "collect"
               [] phase \in 2..4 -> "create"
               [] phase = 5 -> "merge"
    /\ UNCHANGED <<util, args, phase, pools_created, queue, running, slots, finished, locals>>

\* lines 835-844: the consumed cells are collected and taken out of the
\* source; numpy.concatenate raises ValueError on the empty list an empty
\* target grid yields
Collect ==
    /\ pc = "collect"
    /\ IF Len(exact_rate) = 0
       THEN /\ pc' = "error"
            /\ UNCHANGED <<exact_cells, exact_rate_tgt, fcst_rate_poly, lft_fcst_grid,
                           fcst_rate, fcst_grid>>
       ELSE /\ pc' = "create"
            /\ exact_cells' = CollectCells(exact_rate)
            /\ exact_rate_tgt' = CollectRates(exact_rate)
            /\ fcst_rate_poly' = Delete(fcst_rate, CollectCells(exact_rate))
            /\ lft_fcst_grid' = Delete(fcst_grid, CollectCells(exact_rate))
            /\ fcst_rate' = DeleteOperand(fcst_rate, CollectCells(exact_rate))
            /\ fcst_grid' = DeleteOperand(fcst_grid, CollectCells(exact_rate))
    /\ UNCHANGED <<util, target_grid, ncpu, magnitudes, pool, exact_rate, fcst_grid_poly,
                   fcst_cell_area, target_grid_poly, rate_tgt, map_rate, target_forecast>>

\* lines 870-877: zero padding, the sum of the two phases, the return
Merge ==
    /\ pc = "merge"
    /\ rate_tgt' = ZeroPad(rate_tgt, NumBins(fcst_rate))
    /\ map_rate' = MatAdd(ZeroPad(rate_tgt, NumBins(fcst_rate)), exact_rate_tgt)
    /\ pc' = "return"
    /\ UNCHANGED <<util, args, pool, exact_rate, exact_cells, exact_rate_tgt,
                   fcst_rate_poly, lft_fcst_grid, fcst_grid_poly, fcst_cell_area,
                   target_grid_poly, target_forecast>>

\* forecast_mapping, lines 410-413
Return ==
    /\ pc = "return"
    /\ target_forecast' = GriddedForecast(map_rate, target_grid, magnitudes)
    /\ pc' = "done"
    /\ UNCHANGED <<util, args, pool, exact_rate, exact_cells, exact_rate_tgt,
                   fcst_rate_poly, lft_fcst_grid, fcst_grid_poly, fcst_cell_area,
                   target_grid_poly, rate_tgt, map_rate>>

\* the calls the step-by-step specification starts from: partitions of the
\* first latitude band and the scenarios, with every worker count
Init ==
    /\ InitBand \/ InitScenario
    /\ ncpu \in {None} \cup (1..MaxCpu)
    /\ InitLocals

Next ==
    \/ CreatePool
    \/ StartTask
    \/ \E i \in running : FinishTask(i)
    \/ MapReturn
    \/ ClosePool
    \/ Collect
    \/ Merge
    \/ Return

Spec == Init /\ [][Next]_vars

\* some running task can be finished
CanFinish == pc = "map" /\ \E i \in running : TaskReady(i, finished)

\* the steps of Next that finish a task: the only ones that take a task
\* out of the running ones
Finishes == pc = "map" /\ \E i \in running : running' = running \ {i}

\* the scheduling of the call: the calling process runs on whenever it can
\* take its next step, a worker with no task takes a waiting one and a
\* worker with a task finishes it.  The last conjunct is
\* WF_vars(\E i \in running : FinishTask(i)) written out, with CanFinish for
\* the enabling condition of the action and Finishes for its steps.
Fairness ==
    /\ WF_vars(CreatePool) /\ WF_vars(MapReturn) /\ WF_vars(ClosePool)
    /\ WF_vars(Collect) /\ WF_vars(Merge) /\ WF_vars(Return)
    /\ WF_vars(StartTask)
    /\ ([]<>(~CanFinish) \/ []<><<Finishes>>_vars)

SpecFair == Init /\ [][Next]_vars /\ Fairness

\* cells as a caller may hand them over, unchecked: well-formed ones, one
\* with lon_min > lon_max, one with lat_min > lat_max and one reaching
\* beyond 90 degrees of latitude (cells without width or height are left
\* out)
RawCells ==
    {<<0, 0, 1, 1>>, <<1, 0, 2, 1>>, <<0, 0, 2, 1>>,
     <<1, 0, 0, 1>>, <<0, 1, 1, 0>>, <<0, 0, 1, 95>>}

\* a call on unchecked arguments: any cells, at least one of them a target,
\* and a rate matrix of any number of rows
InitRaw ==
    /\ target_grid \in UNION {[1..n -> RawCells] : n \in 1..MaxTgt}
    /\ fcst_grid \in UNION {[1..n -> RawCells] : n \in 1..2}
    /\ fcst_rate \in UNION {RampMatrices(n) : n \in 1..MaxSrc}
    /\ magnitudes = Labels(NumBins(fcst_rate))
    /\ ncpu \in {None, 1}
    /\ InitLocals

SpecRaw == InitRaw /\ [][Next]_vars

-----------------------------------------------------------------------------
(* The call as one step, for the claims about its result.                  *)

\* forecast_mapping(forecast_gridded, target_grid, ncpu) from call to
\* return, every pool.map taken as the ordered map it is
Call ==
    /\ pc = "create"
    /\ phase = 0
    /\ Len(target_grid) > 0
    /\ exact_rate' = [i \in 1..Len(target_grid) |->
                         map_exact_inside_cells(fcst_grid, fcst_rate, target_grid[i])]
    /\ exact_cells' = CollectCells(exact_rate')
    /\ exact_rate_tgt' = CollectRates(exact_rate')
    /\ fcst_rate_poly' = Delete(fcst_rate, exact_cells')
    /\ lft_fcst_grid' = Delete(fcst_grid, exact_cells')
    /\ fcst_rate' = DeleteOperand(fcst_rate, exact_cells')
    /\ fcst_grid' = DeleteOperand(fcst_grid, exact_cells')
    /\ fcst_grid_poly' = [j \in 1..Len(lft_fcst_grid') |-> create_polygon(lft_fcst_grid'[j])]
    /\ fcst_cell_area' = [j \in 1..Len(lft_fcst_grid') |-> calc_cell_area(lft_fcst_grid'[j])]
    /\ target_grid_poly' = [i \in 1..Len(target_grid) |-> create_polygon(target_grid[i])]
    /\ slots' = [i \in 1..Len(target_grid_poly') |->
                    map_overlapping_cells(fcst_grid_poly', fcst_cell_area',
                                          fcst_rate_poly', target_grid_poly'[i])]
    /\ rate_tgt' = ZeroPad(slots', NumBins(fcst_rate))
    /\ map_rate' = MatAdd(rate_tgt', exact_rate_tgt')
    /\ target_forecast' = GriddedForecast(map_rate', target_grid, magnitudes)
    /\ phase' = 5
    /\ pools_created' = 1..5
    /\ finished' = [i \in 1..Len(target_grid) |-> i]
    /\ pc' = "done"
    /\ UNCHANGED <<util, target_grid, ncpu, magnitudes, pools_open, queue, running>>

\* the call on an empty target grid: the ValueError of line 841
CallEmpty ==
    /\ pc = "create"
    /\ phase = 0
    /\ Len(target_grid) = 0
    /\ phase' = 1
    /\ pools_created' = {1}
    /\ pc' = "error"
    /\ UNCHANGED <<util, args, pools_open, queue, running, slots, finished, locals>>

InitCall ==
    /\ InitFrom(CellsIn(MaxLon, MaxLat)) \/ InitScenario
    /\ ncpu = None
    /\ InitLocals

NextCall == Call \/ CallEmpty

SpecCall == InitCall /\ [][NextCall]_vars


-----------------------------------------------------------------------------
(* Python values of the helper functions: a value carries its type; a      *)
(* string is the sequence of its characters.                               *)

PyNone == [type |-> "NoneType"]
PyStr(chars) == [type |-> "str", val |-> chars]
PyInt(n) == [type |-> "int", val |-> n]
\* a float with one decimal, held in tenths: PyFloat(15) is 1.5
PyFloat(tenths) == [type |-> "float", val |-> tenths]

\* how a call ends
Returned(v) == [status |-> "returned", value |-> v]
Raised(e) == [status |-> "raised", value |-> [type |-> e]]

IsDigit(c) == c \in {"0", "1", "2", "3", "4", "5", "6", "7", "8", "9"}

DigitChar(d) == <<"0", "1", "2", "3", "4", "5", "6", "7", "8", "9">>[d + 1]

RECURSIVE FormatInt(_)
\* f'{n}' of an int n >= 0
FormatInt(n) == IF n < 10 THEN <<DigitChar(n)>> ELSE FormatInt(n \div 10) \o <<DigitChar(n % 10)>>

\* f'{x}' of a float x >= 0 with one decimal
FormatFloat(tenths) == FormatInt(tenths \div 10) \o <<".">> \o FormatInt(tenths % 10)

\* the letters str.lower() changes, among those the windows are written in
LowerChar(c) ==
    CASE c = "D" -> "d" [] c = "A" -> "a" [] c = "Y" -> "y" [] c = "S" -> "s"
      [] c = "E" -> "e" [] c = "R" -> "r" [] OTHER -> c

\* s.lower()
Lower(chars) == [i \in 1..Len(chars) |-> LowerChar(chars[i])]

\* a in b, of two strings
IsSubstring(a, b) ==
    \E k \in 0..(Len(b) - Len(a)) : SubSeq(b, k + 1, k + Len(a)) = a

RECURSIVE RunsFrom(_, _, _)
\* the maximal runs of digits and of other characters of chars from
\* position j on, cur being the run under way
RunsFrom(chars, j, cur) ==
    IF j > Len(chars) THEN (IF cur = <<>> THEN <<>> ELSE <<cur>>)
    ELSE IF cur = <<>> \/ IsDigit(chars[j]) = IsDigit(cur[1])
    THEN RunsFrom(chars, j + 1, Append(cur, chars[j]))
    ELSE <<cur>> \o RunsFrom(chars, j + 1, <<chars[j]>>)

\* [i for i in re.split(r'(\d+)', window) if i]: the digit groups and the
\* text between them, the empty strings dropped
ReSplitDigits(chars) == RunsFrom(chars, 1, <<>>)

\* _UNITS, line 32
UNITS ==
    << <<"y", "e", "a", "r", "s">>, <<"m", "o", "n", "t", "h", "s">>,
       <<"w", "e", "e", "k", "s">>, <<"d", "a", "y", "s">> >>

\* _PD_FORMAT, line 33
PD_FORMAT == << <<"Y", "S">>, <<"M", "S">>, <<"W">>, <<"D">> >>

\* j[:-1]
DropLast(s) == SubSeq(s, 1, Len(s) - 1)

\* [i for i in [j[:-1] for j in _UNITS] if i in unit_.lower()]: positions
\* in _UNITS of the unit names found in unit_, in the order of _UNITS
UnitsIn(unit_) == {k \in 1..Len(UNITS) : IsSubstring(DropLast(UNITS[k]), Lower(unit_))}

\* the least element of a non-empty set of numbers
MinOf(S) == CHOOSE x \in S : \A y \in S : x <= y

\* parse_timedelta_string(window, exp_class), lines 79-111
parse_timedelta_string(window, exp_class) ==
    IF window.type = "str"
    THEN LET parts == ReSplitDigits(window.val)
         IN IF Len(parts) # 2 THEN Raised("ValueError")
            ELSE IF UnitsIn(parts[2]) = {} THEN Raised("ValueError")
            ELSE Returned(PyStr(parts[1] \o <<"-">>
                                \o DropLast(UNITS[MinOf(UnitsIn(parts[2]))]) \o <<"s">>))
    ELSE IF window.type = "float"
    THEN Returned(PyStr(FormatFloat(window.val) \o <<"-">>
                        \o DropLast(IF exp_class = "ti" THEN UNITS[1] ELSE UNITS[4])
                        \o <<"s">>))
    ELSE Returned(PyNone)

\* the windows a caller passes: strings, floats and ints
Windows ==
    {PyStr(<<"1", " ", "d", "a", "y">>), PyStr(<<"1", "0", " ", "D", "a", "y", "s">>),
     PyStr(<<"3", " ", "Y", "E", "A", "R", "S">>), PyStr(<<"2", "m", "o", "n", "t", "h", "s">>),
     PyStr(<<"1", ".", "5", " ", "y", "e", "a", "r", "s">>), PyStr(<<"d", "a", "y", "s">>),
     PyStr(<<"5">>), PyStr(<<"2", " ", "e", "r", "a", "s">>), PyStr(<<"1", " ", "w", "e", "e", "k">>)}
    \cup {PyFloat(t) : t \in {5, 10, 15, 20, 125}}
    \cup {PyInt(n) : n \in {0, 1, 2, 10}}

\* a datetime, held as whole hours since an epoch
PyDate(h) == [type |-> "datetime", val |-> h]

HoursPerDay == 24

\* bool(x) of an argument: None, 0 and '' are false
Truthy(x) ==
    CASE x.type = "NoneType" -> FALSE
      [] x.type = "int" -> x.val # 0
      [] x.type = "str" -> x.val # <<>>
      [] OTHER -> TRUE

RECURSIVE SplitFrom(_, _, _, _)
\* the pieces of chars between the separators from position j on, cur
\* being the piece under way
SplitFrom(chars, sep, j, cur) ==
    IF j > Len(chars) THEN <<cur>>
    ELSE IF chars[j] = sep THEN <<cur>> \o SplitFrom(chars, sep, j + 1, <<>>)
    ELSE SplitFrom(chars, sep, j + 1, Append(cur, chars[j]))

\* s.split(sep) for a separator of one character
Split(chars, sep) == SplitFrom(chars, sep, 1, <<>>)

\* the value of a digit character
DigitValue(c) == CHOOSE d \in 0..9 : DigitChar(d) = c

RECURSIVE ParseInt(_)
\* the number a string of digits writes
ParseInt(chars) ==
    IF Len(chars) = 1 THEN DigitValue(chars[1])
    ELSE 10 * ParseInt(DropLast(chars)) + DigitValue(chars[Len(chars)])

\* _UNITS.index(unit): 0 when unit is not in the list (Python raises ValueError)
UnitIndex(unit) ==
    IF \E k \in 1..Len(UNITS) : UNITS[k] = unit
    THEN CHOOSE k \in 1..Len(UNITS) : UNITS[k] = unit
    ELSE 0

\* the frequency string f'{n}{_PD_FORMAT[_UNITS.index(unit)]}' of a horizon
\* 'n-unit', kept as <<n, pandas code>>
Frequency(horizon) ==
    LET parts == Split(horizon, "-")
    IN <<parts[1], PD_FORMAT[UnitIndex(parts[2])]>>

\* the horizon splits into n and a unit of _UNITS (else ValueError)
HorizonParses(horizon) ==
    /\ Len(Split(horizon, "-")) = 2
    /\ UnitIndex(Split(horizon, "-")[2]) # 0

\* a frequency pandas steps by a fixed length: whole days
StepHours(freq) == ParseInt(freq[1]) * HoursPerDay

\* pandas.date_range(start, end, periods, freq).to_pydatetime(): the list of
\* datetimes, or the ValueError raised.  A missing freq is 'D' when start, end or
\* periods is missing; then exactly three of the four must be given.
\* (Frequencies in days; start and end on the step grid of each other.)
date_range(start, end, periods, freq) ==
    LET f == IF freq = <<>> /\ (start.type = "NoneType" \/ end.type = "NoneType"
                                \/ periods.type = "NoneType")
             THEN <<<<"1">>, <<"D">>>> ELSE freq
        given == (IF start.type = "NoneType" THEN 0 ELSE 1)
                 + (IF end.type = "NoneType" THEN 0 ELSE 1)
                 + (IF periods.type = "NoneType" THEN 0 ELSE 1)
                 + (IF f = <<>> THEN 0 ELSE 1)
    IN IF given # 3 THEN [error |-> "ValueError", dates |-> <<>>]
       ELSE [error |-> "",
             dates |->
               IF f = <<>>
               THEN IF periods.val = 0 THEN <<>>
                    ELSE IF periods.val = 1 THEN <<start.val>>
                    ELSE [k \in 1..periods.val |->
                             start.val
                             + ((k - 1) * (end.val - start.val)) \div (periods.val - 1)]
               ELSE IF periods.type = "NoneType"
               THEN IF end.val < start.val THEN <<>>
                    ELSE [k \in 1..((end.val - start.val) \div StepHours(f) + 1) |->
                             start.val + (k - 1) * StepHours(f)]
               ELSE IF end.type = "NoneType"
               THEN [k \in 1..periods.val |-> start.val + (k - 1) * StepHours(f)]
               ELSE [k \in 1..periods.val |-> end.val - (periods.val - k) * StepHours(f)]]

\* date + pandas.DateOffset(**{offset[1]: float(offset[0])}), sign +1 or -1
\* (offsets in days)
AddOffset(date, offset, sign) ==
    PyDate(date.val + sign * ParseInt(offset[1]) * HoursPerDay)

\* time_windows_td(start_date, end_date, timeintervals, timehorizon,
\* timeoffset), lines 265-334: the limits are computed (their last entries
\* dropped, which changes nothing below) and the function ends without a
\* return statement, so that it returns None
time_windows_td(start_date, end_date, timeintervals, timehorizon, timeoffset) ==
    IF Truthy(timehorizon) /\ ~HorizonParses(timehorizon.val) THEN Raised("ValueError")
    ELSE IF Truthy(timeoffset) /\ (start_date.type = "NoneType" \/ end_date.type = "NoneType")
    THEN Raised("TypeError")
    ELSE
    LET frequency == IF Truthy(timehorizon) THEN Frequency(timehorizon.val) ELSE <<>>
        periods == IF Truthy(timeintervals) THEN PyInt(timeintervals.val + 1)
                   ELSE timeintervals
        offset == IF Truthy(timeoffset) THEN Split(timeoffset.val, "-") ELSE <<>>
        start_offset == IF offset # <<>> THEN AddOffset(start_date, offset, 1)
                        ELSE start_date
        end_offset == IF offset # <<>> THEN AddOffset(end_date, offset, 0 - 1)
                      ELSE start_date
        lower_limits == date_range(start_date, end_offset, periods, frequency)
        upper_limits == date_range(start_offset, end_date, periods, frequency)
    IN IF lower_limits.error # "" \/ upper_limits.error # ""
       THEN Raised("ValueError")
       ELSE Returned(PyNone)

\* a list of values
PyList(items) == [type |-> "list", val |-> items]

\* a dictionary, held as a record of its keys; a key it does not hold has
\* the value Absent
PyDict(items) == [type |-> "dict", val |-> items]
Absent == [type |-> "absent"]

\* the value a keyword parameter gets: the one passed, or its default
Passed(x, default) == IF x.type = "absent" THEN default ELSE x

Incremental == PyStr(<<"i", "n", "c", "r", "e", "m", "e", "n", "t", "a", "l">>)
Cumulative == PyStr(<<"c", "u", "m", "u", "l", "a", "t", "i", "v", "e">>)
ClassTI == PyStr(<<"t", "i">>)
ClassTD == PyStr(<<"t", "d">>)

\* mutant of Periods: one limit per interval
Periods_intervals(intervals) == intervals

\* periods = intervals + 1 if intervals else intervals, line 240
Periods(intervals) ==
    IF Truthy(intervals) THEN PyInt(intervals.val + 1) ELSE intervals

\* time_windows_ti(start_date, end_date, intervals, horizon, growth), lines
\* 205-262: the list of (lower, upper) pairs, or the ValueError raised
time_windows_ti(start_date, end_date, intervals, horizon, growth) ==
    LET one == intervals.type = "NoneType" /\ horizon.type = "NoneType"
        intervals_ == IF one THEN PyInt(1) ELSE intervals
    IN IF ~one /\ Truthy(horizon) /\ ~HorizonParses(horizon.val) THEN Raised("ValueError")
       ELSE
       LET frequency == IF ~one /\ Truthy(horizon) THEN Frequency(horizon.val) ELSE <<>>
           timelimits == date_range(start_date, end_date, Periods(intervals_), frequency)
           tl == timelimits.dates
       IN IF timelimits.error # "" THEN Raised("ValueError")
          ELSE IF growth = Incremental
          THEN Returned(PyList([k \in 1..(Len(tl) - 1) |-> <<tl[k], tl[k + 1]>>]))
          ELSE IF growth = Cumulative
          THEN Returned(PyList([k \in 1..(Len(tl) - 1) |-> <<tl[1], tl[k + 1]>>]))
          ELSE Returned(PyNone)

\* _attrs, lines 129-130
attrs == {"start_date", "end_date", "intervals", "horizon", "offset", "growth", "exp_class"}

\* lines 135-139: time_config.get('exp_class', kwargs['exp_class']), whose
\* second argument is looked up before get is called, so that a missing
\* keyword argument raises the KeyError that selects 'ti'
experiment_class(time_config, kwargs) ==
    IF kwargs.exp_class.type = "absent" THEN ClassTI
    ELSE IF time_config.exp_class.type # "absent" THEN time_config.exp_class
    ELSE kwargs.exp_class

\* the dictionary after lines 132-145: {} for None, 'exp_class' set by the
\* except branch, the keyword arguments of _attrs written over it, the
\* horizon and the offset parsed with the default class; or the error the
\* parsing raised
Updated(time_config, kwargs) ==
    LET tc0 == IF time_config.type = "NoneType" THEN [k \in attrs |-> Absent]
               ELSE time_config.val
        tc1 == IF kwargs.exp_class.type = "absent"
               THEN [tc0 EXCEPT !.exp_class = ClassTI] ELSE tc0
        tc2 == [k \in attrs |-> Passed(kwargs[k], tc1[k])]
        hz  == parse_timedelta_string(tc2.horizon, "ti")
        off == parse_timedelta_string(tc2.offset, "ti")
        tc3 == IF tc2.horizon.type = "absent" THEN tc2
               ELSE [tc2 EXCEPT !.horizon = hz.value]
    IN IF tc2.horizon.type # "absent" /\ hz.status = "raised"
       THEN [error |-> "ValueError", dict |-> tc2]
       ELSE IF tc2.offset.type # "absent" /\ off.status = "raised"
       THEN [error |-> "ValueError", dict |-> tc2]
       ELSE [error |-> "",
             dict |-> IF tc2.offset.type = "absent" THEN tc3
                      ELSE [tc3 EXCEPT !.offset = off.value]]

\* the function lines 147-152 hand the dictionary to
WindowsBuilder(time_config, kwargs) ==
    LET tc0 == IF time_config.type = "NoneType" THEN [k \in attrs |-> Absent]
               ELSE time_config.val
        ec == experiment_class(tc0, kwargs)
    IN IF ec = ClassTI THEN "time_windows_ti"
       ELSE IF ec = ClassTD THEN "time_windows_td"
       ELSE "none"

\* read_time_config(time_config, **kwargs), lines 114-152: the dictionary
\* with its time windows, None for a class other than 'ti' and 'td', or
\* the error raised.  time_windows_td takes start_date and end_date from
\* the dictionary: its other parameters have names the dictionary lacks.
read_time_config(time_config, kwargs) ==
    LET tc == Updated(time_config, kwargs).dict
        builder == WindowsBuilder(time_config, kwargs)
    IN IF Updated(time_config, kwargs).error # "" THEN Raised("ValueError")
       ELSE IF builder = "none" THEN Returned(PyNone)
       ELSE
       LET tw == IF builder = "time_windows_ti"
                 THEN time_windows_ti(Passed(tc.start_date, PyNone),
                                      Passed(tc.end_date, PyNone),
                                      Passed(tc.intervals, PyNone),
                                      Passed(tc.horizon, PyNone),
                                      Passed(tc.growth, Incremental))
                 ELSE time_windows_td(Passed(tc.start_date, PyNone),
                                      Passed(tc.end_date, PyNone),
                                      PyNone, PyNone, PyNone)
       IN IF tw.status = "raised" THEN tw
          ELSE Returned(PyDict([k \in attrs \cup {"time_windows"} |->
                                   IF k = "time_windows" THEN tw.value ELSE tc[k]]))

\* _target_modules, lines 63-69: the modules searched, in this order
target_modules ==
    <<"csep", "csep.utils", "csep.utils.plots", "csep.core.regions",
      "fecsep.utils", "fecsep.accessors", "fecsep.evaluations">>

\* An object is known by where it lives: <<m, path>> is the attribute path
\* of the m-th target module, <<m, <<>>>> the module itself; a callable
\* handed in from elsewhere lives in module 0.  The contents of the modules
\* are a list of sets of attribute paths, one set per target module.
PyObject(m, path) == [type |-> "object", val |-> <<m, path>>]

\* callable(func): a function object is, a string or None is not
Callable(func) == func.type = "object"

RECURSIVE GetAttrFrom(_, _, _, _)
\* functools.reduce(_getattr, [obj] + names) from the k-th name on
GetAttrFrom(contents, obj, names, k) ==
    IF k > Len(names) THEN Returned(obj)
    ELSE IF Append(obj.val[2], names[k]) \in contents[obj.val[1]]
    THEN GetAttrFrom(contents, PyObject(obj.val[1], Append(obj.val[2], names[k])),
                     names, k + 1)
    ELSE Raised("AttributeError")

\* mutant of rgetattr: a plain getattr, the name is not split at the dots
rgetattr_plain(contents, m, attr) ==
    IF attr.type # "str" THEN Raised("AttributeError")
    ELSE GetAttrFrom(contents, PyObject(m, <<>>), <<attr.val>>, 1)

\* rgetattr(module, func), lines 52-56; attr.split raises AttributeError
\* when attr is no string
rgetattr(contents, m, attr) ==
    IF attr.type # "str" THEN Raised("AttributeError")
    ELSE GetAttrFrom(contents, PyObject(m, <<>>), Split(attr.val, "."), 1)

RECURSIVE SearchModules(_, _, _)
\* the loop of lines 70-77 from the m-th module on
SearchModules(contents, func, m) ==
    IF m > Len(target_modules) THEN Raised("AttributeError")
    ELSE IF rgetattr(contents, m, func).status = "returned"
    THEN rgetattr(contents, m, func)
    ELSE SearchModules(contents, func, m + 1)

\* parse_csep_func(func), lines 36-76
parse_csep_func(contents, func) ==
    IF Callable(func) THEN Returned(func)
    ELSE SearchModules(contents, func, 1)

\* what a module may hold: nothing, f, g, or g with its attribute h
ModuleContents ==
    {{}, {<< <<"f">> >>}, {<< <<"g">> >>}, {<< <<"g">> >>, << <<"g">>, <<"h">> >>}}

Init_parse_csep_func ==
    /\ fn = "parse_csep_func"
    /\ fn_args \in
         [contents : [1..Len(target_modules) -> ModuleContents],
          func : {PyObject(0, << <<"c">> >>), PyNone, PyStr(<<"f">>), PyStr(<<"g">>),
                  PyStr(<<"g", ".", "h">>), PyStr(<<"h">>), PyStr(<<>>)}]

\* a call of parse_csep_func(func)
Call_parse_csep_func ==
    /\ fn = "parse_csep_func"
    /\ fn_result.status = "pending"
    /\ fn_result' = parse_csep_func(fn_args.contents, fn_args.func)
    /\ UNCHANGED <<args, pc, pool, locals, report, fn, fn_args>>

\* the remap is not running
IdleRemap ==
    /\ target_grid = <<>> /\ fcst_grid = <<>> /\ fcst_rate = <<>>
    /\ ncpu = None /\ magnitudes = <<>>
    /\ pc = "idle" /\ phase = 0
    /\ pools_open = {} /\ pools_created = {}
    /\ queue = <<>> /\ running = {} /\ slots = <<>> /\ finished = <<>>
    /\ exact_rate = <<>> /\ exact_cells = <<>> /\ exact_rate_tgt = <<>>
    /\ fcst_rate_poly = <<>> /\ lft_fcst_grid = <<>> /\ fcst_grid_poly = <<>>
    /\ fcst_cell_area = <<>> /\ target_grid_poly = <<>>
    /\ rate_tgt = <<>> /\ map_rate = <<>> /\ target_forecast = <<>>

\* the arguments of a call of time_windows_ti: dates on whole days, the end
\* after the start, up to MaxIntervals intervals, horizons in days
Init_time_windows_ti ==
    /\ fn = "time_windows_ti"
    /\ fn_args \in
         [start_date : {PyNone, PyDate(0), PyDate(2 * HoursPerDay)},
          end_date : {PyNone} \cup {PyDate(d * HoursPerDay) : d \in {6, 12}},
          intervals : {PyNone} \cup {PyInt(n) : n \in 0..MaxIntervals},
          horizon : {PyNone, PyStr(<<"1", "-", "d", "a", "y", "s">>),
                     PyStr(<<"3", "-", "d", "a", "y", "s">>),
                     PyStr(<<"3", " ", "d", "a", "y", "s">>)},
          growth : {Incremental, Cumulative}]

\* a call of time_windows_ti(start_date, end_date, intervals, horizon, growth)
Call_time_windows_ti ==
    /\ fn = "time_windows_ti"
    /\ fn_result.status = "pending"
    /\ fn_result' = time_windows_ti(fn_args.start_date, fn_args.end_date,
                                    fn_args.intervals, fn_args.horizon, fn_args.growth)
    /\ UNCHANGED <<args, pc, pool, locals, report, fn, fn_args>>

\* the configurations of an experiment: with and without a class, a number
\* of intervals, a horizon as text or as a number, an offset, a growth
TimeConfigs ==
    {PyDict(d) :
       d \in [start_date : {PyDate(0)},
              end_date : {PyDate(d * HoursPerDay) : d \in {6, 12}},
              intervals : {Absent} \cup {PyInt(n) : n \in 1..MaxIntervals},
              horizon : {Absent, PyStr(<<"3", " ", "d", "a", "y", "s">>), PyInt(2)},
              offset : {Absent, PyStr(<<"1", " ", "d", "a", "y">>)},
              growth : {Absent, Incremental, Cumulative},
              exp_class : {Absent, ClassTI, ClassTD}]}

\* the arguments of a call of read_time_config: a configuration or None,
\* and keyword arguments for the class, the dates and the intervals
Init_read_time_config ==
    /\ fn = "read_time_config"
    /\ fn_args \in
         [time_config : TimeConfigs \cup {PyNone},
          kwargs : [start_date : {Absent, PyDate(0)},
                    end_date : {Absent, PyDate(6 * HoursPerDay)},
                    intervals : {Absent, PyInt(2)},
                    horizon : {Absent}, offset : {Absent}, growth : {Absent},
                    exp_class : {Absent, ClassTI, ClassTD}]]

\* a call of read_time_config(time_config, **kwargs)
Call_read_time_config ==
    /\ fn = "read_time_config"
    /\ fn_result.status = "pending"
    /\ fn_result' = read_time_config(fn_args.time_config, fn_args.kwargs)
    /\ UNCHANGED <<args, pc, pool, locals, report, fn, fn_args>>

Init_parse_timedelta_string ==
    /\ fn = "parse_timedelta_string"
    /\ fn_args \in [window : Windows, exp_class : {"ti", "td"}]

\* the arguments of a call of time_windows_td: dates on whole days, up to
\* MaxIntervals intervals, horizons and offsets in days, an offset only
\* together with an end date
Init_time_windows_td ==
    /\ fn = "time_windows_td"
    /\ fn_args \in
         [start_date : {PyDate(0)},
          end_date : {PyNone} \cup {PyDate(d * HoursPerDay) : d \in {6, 12}},
          timeintervals : {PyNone} \cup {PyInt(n) : n \in 1..MaxIntervals},
          timehorizon : {PyNone, PyStr(<<"1", "-", "d", "a", "y", "s">>),
                         PyStr(<<"3", "-", "d", "a", "y", "s">>),
                         PyStr(<<"3", " ", "d", "a", "y", "s">>)},
          timeoffset : {PyNone, PyStr(<<"1", "-", "d", "a", "y", "s">>)}]
    /\ fn_args.timeoffset.type = "NoneType" \/ fn_args.end_date.type # "NoneType"

\* a call of time_windows_td(start_date, end_date, timeintervals,
\* timehorizon, timeoffset)
Call_time_windows_td ==
    /\ fn = "time_windows_td"
    /\ fn_result.status = "pending"
    /\ fn_result' = time_windows_td(fn_args.start_date, fn_args.end_date,
                                    fn_args.timeintervals, fn_args.timehorizon,
                                    fn_args.timeoffset)
    /\ UNCHANGED <<args, pc, pool, locals, report, fn, fn_args>>

\* a call of parse_timedelta_string(window, exp_class)
Call_parse_timedelta_string ==
    /\ fn = "parse_timedelta_string"
    /\ fn_result.status = "pending"
    /\ fn_result' = parse_timedelta_string(fn_args.window, fn_args.exp_class)
    /\ UNCHANGED <<args, pc, pool, locals, report, fn, fn_args>>

InitUtil ==
    /\ IdleRemap
    /\ IdleReport
    /\ fn_result = [status |-> "pending"]
    /\ \/ Init_parse_timedelta_string \/ Init_time_windows_td \/ Init_parse_csep_func
       \/ Init_time_windows_ti \/ Init_read_time_config

NextUtil ==
    \/ Call_parse_timedelta_string
    \/ Call_time_windows_td
    \/ Call_parse_csep_func
    \/ Call_time_windows_ti
    \/ Call_read_time_config

SpecUtil == InitUtil /\ [][NextUtil]_vars

-----------------------------------------------------------------------------
(* MarkdownReport: the cells of a document and its table of contents.      *)

\* title.replace(" ", "_") of a string
ReplaceSpaces(chars) == [i \in 1..Len(chars) |-> IF chars[i] = " " THEN "_" ELSE chars[i]]

\* locator = title.lower().replace(" ", "_"), lines 546 and 568
Locator(title) == ReplaceSpaces(Lower(title))

\* a string appended to self.markdown, held by what it was built from: the
\* method, the heading level and title with its anchor, and the lines
Cell(kind, level, title, body) ==
    [kind |-> kind, level |-> level, title |-> title,
     locator |-> Locator(title), body |-> body]

\* list.insert(loc, x): before position loc, at the end when the list is
\* shorter
Insert(list, loc, x) ==
    IF loc >= Len(list) THEN Append(list, x)
    ELSE SubSeq(list, 1, loc) \o <<x>> \o SubSeq(list, loc + 1, Len(list))

\* lines 597-600: the block '# Table of Contents' with one line
\* '{space}1. [{title}](#{locator})' per entry, space being 3 * (level - 1)
\* blanks
TocBlock(entries) ==
    [kind |-> "toc", level |-> 1, title |-> <<>>, locator |-> <<>>,
     body |-> [k \in 1..Len(entries) |->
                  <<3 * (entries[k][2] - 1), entries[k][1], entries[k][3]>>]]

\* the entry of the history for a call
CallOf(method, title, level, add_toc) ==
    [method |-> method, title |-> title, level |-> level, add_toc |-> add_toc]

\* the titles, heading levels and lines the calls are made with
Titles == {<<"D", "a", "t", "a">>, <<"A", " ", "D">>}
Levels == {1, 2}
Lines == <<<<"a">>, <<"b">>>>

\* report = MarkdownReport(), lines 464-468
InitReport ==
    /\ IdleRemap
    /\ fn = "MarkdownReport" /\ fn_args = <<>> /\ fn_result = [status |-> "pending"]
    /\ markdown = <<>>
    /\ toc = <<>>
    /\ has_title = TRUE
    /\ has_introduction = FALSE
    /\ calls = <<>>

\* add_introduction(adict), lines 470-482
add_introduction ==
    /\ Len(calls) < MaxCalls
    /\ has_introduction' = TRUE
    /\ markdown' = Append(markdown, Cell("introduction", 1, <<>>, Lines))
    /\ calls' = Append(calls, CallOf("add_introduction", <<>>, 1, FALSE))
    /\ UNCHANGED <<args, pc, pool, locals, fn, fn_args, fn_result, toc, has_title>>

\* add_text(text), lines 484-492
add_text ==
    /\ Len(calls) < MaxCalls
    /\ markdown' = Append(markdown, Cell("text", 0, <<>>, Lines))
    /\ calls' = Append(calls, CallOf("add_text", <<>>, 0, FALSE))
    /\ UNCHANGED <<args, pc, pool, locals, fn, fn_args, fn_result, toc, has_title,
                   has_introduction>>

\* add_figure(title, relative_filepaths, level), lines 494-560: the cell
\* and its entry in the table of contents
add_figure(title, level) ==
    /\ Len(calls) < MaxCalls
    /\ markdown' = Append(markdown, Cell("figure", level, title, Lines))
    /\ toc' = Append(toc, <<title, level, Locator(title)>>)
    /\ calls' = Append(calls, CallOf("add_figure", title, level, TRUE))
    /\ UNCHANGED <<args, pc, pool, locals, fn, fn_args, fn_result, has_title,
                   has_introduction>>

\* the body of add_heading(title, level, text, add_toc), lines 562-581, as
\* the next values of markdown and toc
heading(title, level, text, add_toc) ==
    /\ markdown' = Append(markdown, Cell("heading", level, title, text))
    /\ toc' = IF add_toc THEN Append(toc, <<title, level, Locator(title)>>) ELSE toc

\* add_heading(title, level, text, add_toc)
add_heading(title, level, add_toc) ==
    /\ Len(calls) < MaxCalls
    /\ heading(title, level, Lines, add_toc)
    /\ calls' = Append(calls, CallOf("add_heading", title, level, add_toc))
    /\ UNCHANGED <<args, pc, pool, locals, fn, fn_args, fn_result, has_title,
                   has_introduction>>

\* add_list(list), lines 583-587
add_list ==
    /\ Len(calls) < MaxCalls
    /\ markdown' = Append(markdown, Cell("list", 0, <<>>, Lines))
    /\ calls' = Append(calls, CallOf("add_list", <<>>, 0, FALSE))
    /\ UNCHANGED <<args, pc, pool, locals, fn, fn_args, fn_result, toc, has_title,
                   has_introduction>>

\* add_title(title, text), lines 589-591
add_title(title) ==
    /\ Len(calls) < MaxCalls
    /\ has_title' = TRUE
    /\ heading(title, 1, Lines, FALSE)
    /\ calls' = Append(calls, CallOf("add_title", title, 1, FALSE))
    /\ UNCHANGED <<args, pc, pool, locals, fn, fn_args, fn_result, has_introduction>>

\* add_table(data, use_header), lines 604-640
add_table ==
    /\ Len(calls) < MaxCalls
    /\ markdown' = Append(markdown, Cell("table", 0, <<>>, Lines))
    /\ calls' = Append(calls, CallOf("add_table", <<>>, 0, FALSE))
    /\ UNCHANGED <<args, pc, pool, locals, fn, fn_args, fn_result, toc, has_title,
                   has_introduction>>

\* table_of_contents(), lines 593-602
table_of_contents ==
    /\ Len(calls) < MaxCalls
    /\ markdown' = IF Len(toc) = 0 THEN markdown
                   ELSE Insert(markdown, IF has_title THEN 1 ELSE 0, TocBlock(toc))
    /\ calls' = Append(calls, CallOf("table_of_contents", <<>>, 0, FALSE))
    /\ UNCHANGED <<args, pc, pool, locals, fn, fn_args, fn_result, toc, has_title,
                   has_introduction>>

NextReport ==
    \/ add_introduction
    \/ add_text
    \/ \E title \in Titles, level \in Levels : add_figure(title, level)
    \/ \E title \in Titles, level \in Levels, add_toc \in BOOLEAN :
          add_heading(title, level, add_toc)
    \/ add_list
    \/ \E title \in Titles : add_title(title)
    \/ add_table
    \/ table_of_contents

SpecReport == InitReport /\ [][NextReport]_vars

-----------------------------------------------------------------------------
(* Vocabulary of the claims.                                               *)

Done == pc = "done"

\* the unit squares (by lower left corner) a cell covers
Squares(cell) == (cell[1]..(cell[3] - 1)) \X (cell[2]..(cell[4] - 1))

\* the squares covered by the cells of grid with an index in idx
FootprintOf(grid, idx) == UNION {Squares(grid[i]) : i \in idx}

Footprint(grid) == FootprintOf(grid, 1..Len(grid))

\* cell a lies within cell b
Within(a, b) == Squares(a) \subseteq Squares(b)

RECURSIVE RSumOver(_, _)
\* the sum of f[i] over the indices i in idx: rationals
RSumOver(f, idx) ==
    IF idx = {} THEN RZero
    ELSE LET i == CHOOSE x \in idx : TRUE
         IN RAdd(f[i], RSumOver(f, idx \ {i}))

Bins == 1..NumBins(fcst_rate)

\* the source rate of bin m, cell by cell
SourceColumn(m) == [s \in 1..Len(fcst_rate) |-> RInt(fcst_rate[s][m])]

\* the remapped rate of bin m, target by target
TargetColumn(m) == [t \in 1..Len(map_rate) |-> map_rate[t][m]]

ValidPartitions == NonOverlapping(fcst_grid) /\ NonOverlapping(target_grid)

\* the source cells the exact phase consumed
Consumed == Range(exact_cells)

\* the source cells handed to the overlap phase, by their original index
Remaining == (1..Len(fcst_grid)) \ Consumed

\* the area of the part of source cell s inside target cell t (0 when they
\* share no area)
SharedArea(s, t) ==
    IF Overlap(fcst_grid[s], target_grid[t])
    THEN geographical_area_from_bounds(
             Max2(fcst_grid[s][1], target_grid[t][1]), Max2(fcst_grid[s][2], target_grid[t][2]),
             Min2(fcst_grid[s][3], target_grid[t][3]), Min2(fcst_grid[s][4], target_grid[t][4]))
    ELSE 0

CellArea(cell) == geographical_area_from_bounds(cell[1], cell[2], cell[3], cell[4])

\* the rate of bin m that source cell s owes target cell t by area
AreaShare(s, t, m) == Rat(fcst_rate[s][m] * SharedArea(s, t), CellArea(fcst_grid[s]))

-----------------------------------------------------------------------------
(* C1: mass conservation under full coverage.  When the source cells and   *)
(* the target cells are two non-overlapping partitions of the same         *)
(* footprint, the remapped rates summed over all target cells equal, bin   *)
(* by bin, the source rates summed over all source cells.                  *)
C1_MassConservation ==
    (Done /\ ValidPartitions /\ Footprint(target_grid) = Footprint(fcst_grid))
    => \A m \in Bins :
          RSumOver(TargetColumn(m), 1..Len(map_rate)) =
          RSumOver(SourceColumn(m), 1..Len(fcst_rate))

\* a full-coverage remap in which some source cell is split among targets
\* and another is consumed whole, with rate to conserve
C1_Witness ==
    /\ Done /\ ValidPartitions /\ Footprint(target_grid) = Footprint(fcst_grid)
    /\ Consumed # {} /\ Remaining # {}
    /\ \E s \in Remaining : fcst_rate[s][1] > 0
    /\ \E s \in Consumed : fcst_rate[s][1] > 0

(* C2: local mass conservation.  For every region tiled by a subset of the *)
(* source cells and by a subset of the target cells of two non-overlapping *)
(* partitions, the remapped rates of those target cells sum, bin by bin,   *)
(* to the source rates of those source cells; and a source cell outside    *)
(* the region is neither consumed by nor shares area with a target cell    *)
(* inside it.                                                              *)
C2_LocalConservation ==
    (Done /\ ValidPartitions)
    => \A S \in SUBSET (1..Len(fcst_grid)), T \in SUBSET (1..Len(target_grid)) :
          FootprintOf(fcst_grid, S) = FootprintOf(target_grid, T)
          => /\ \A m \in Bins :
                   RSumOver(TargetColumn(m), T) = RSumOver(SourceColumn(m), S)
             /\ \A t \in T, s \in (1..Len(fcst_grid)) \ S :
                   /\ s \notin Range(exact_rate[t][2])
                   /\ SharedArea(s, t) = 0

\* a proper sub-region tiled by two source cells and by target cells, with
\* a source cell outside it that carries rate and shares area with a target
\* cell outside it
C2_Witness ==
    /\ Done /\ ValidPartitions
    /\ \E S \in SUBSET (1..Len(fcst_grid)), T \in SUBSET (1..Len(target_grid)) :
          /\ Cardinality(S) >= 2 /\ S # 1..Len(fcst_grid) /\ T # 1..Len(target_grid)
          /\ FootprintOf(fcst_grid, S) = FootprintOf(target_grid, T)
          /\ \E s \in S : fcst_rate[s][1] > 0
          /\ \E s \in (1..Len(fcst_grid)) \ S, t \in (1..Len(target_grid)) \ T :
                fcst_rate[s][1] > 0 /\ SharedArea(s, t) > 0

(* C3: identity remap.  When the target partition is the source partition  *)
(* (non-overlapping cells), the result is the source rate matrix row for   *)
(* row, every source cell is consumed by its own target cell and by no     *)
(* other, and the overlap phase gets no source cell.                       *)
C3_Identity ==
    (Done /\ target_grid = fcst_grid /\ ValidPartitions)
    => /\ map_rate = [s \in 1..Len(fcst_rate) |->
                         [m \in 1..NumBins(fcst_rate) |-> RInt(fcst_rate[s][m])]]
       /\ \A t \in 1..Len(target_grid) : exact_rate[t][2] = <<t>>
       /\ lft_fcst_grid = <<>> /\ fcst_rate_poly = <<>> /\ fcst_grid_poly = <<>>

\* an identity remap of at least two cells carrying different rates
C3_Witness ==
    /\ Done /\ target_grid = fcst_grid /\ ValidPartitions
    /\ Len(fcst_grid) >= 2
    /\ fcst_rate[1] # fcst_rate[2]

RemapOf(tg, fg, fr) ==
    LET er  == [i \in 1..Len(tg) |-> map_exact_inside_cells(fg, fr, tg[i])]
        ec  == CollectCells(er)
        lft == Delete(fg, ec)
        fgp == [j \in 1..Len(lft) |-> create_polygon(lft[j])]
        fca == [j \in 1..Len(lft) |-> calc_cell_area(lft[j])]
        rt  == [i \in 1..Len(tg) |->
                   map_overlapping_cells(fgp, fca, Delete(fr, ec), create_polygon(tg[i]))]
    IN  MatAdd(ZeroPad(rt, NumBins(fr)), CollectRates(er))

(* C5: determinism under parallelism.  Whatever the worker count (1, N or  *)
(* None) and whatever the order in which the workers finish, the value     *)
(* returned is one and the same function of the source cells, the source   *)
(* rates and the target cells.                                             *)
C5_Determinism ==
    (pc \in {"return", "done"}) => map_rate = RemapOf(target_grid, fcst_grid, fcst_rate)

\* a call with more than one worker whose overlap tasks finished out of
\* list order, returning different rates for its two targets
C5_Witness ==
    /\ Done /\ NumWorkers(ncpu) > 1
    /\ finished = <<2, 1>>
    /\ map_rate[1] # map_rate[2]

(* C6: output ordering under concurrency.  In the exact phase and in the   *)
(* overlap phase, at every moment of every interleaving, the slot of a     *)
(* finished task holds the result computed for its own target cell and the *)
(* slot of an unfinished task is untouched; the lists the two maps return  *)
(* hold at index i the result for target cell i.                           *)
C6_SlotOrder ==
    /\ (pc = "map" /\ phase \in {1, 5})
       => \A i \in 1..Len(slots) :
             IF i \in Range(finished) THEN slots[i] = TaskResult(phase, i)
             ELSE slots[i] = <<>>
    /\ (phase > 1 \/ (phase = 1 /\ pc # "map"))
       => exact_rate = [i \in 1..Len(target_grid) |->
                           map_exact_inside_cells(fcst_grid, fcst_rate, target_grid[i])]
    /\ (phase = 5 /\ pc = "close")
       => rate_tgt = [i \in 1..Len(target_grid) |-> TaskResult(5, i)]

\* the overlap task of the second target has finished while that of the
\* first is still running, and the two results differ
C6_Witness ==
    /\ pc = "map" /\ phase = 5
    /\ finished = <<2>> /\ running = {1}
    /\ slots[2] # <<>> /\ slots[2] # TaskResult(5, 1)


\* the source cells lying within target cell t
SourcesWithin(t) == {s \in 1..Len(fcst_grid) : Within(fcst_grid[s], target_grid[t])}

\* every target cell is a union of whole source cells
ContainmentOnly ==
    \A t \in 1..Len(target_grid) :
        Squares(target_grid[t]) = FootprintOf(fcst_grid, SourcesWithin(t))

(* C7: containment-only case.  When every target cell is an exact union of *)
(* whole source cells (non-overlapping partitions), the overlap phase      *)
(* gives every target cell the zero vector and the final rate of a target  *)
(* cell is the sum of the rates of the source cells it contains; source    *)
(* cells (0,0,10,10) with [4,0] and (10,0,20,10) with [2,0] remapped to    *)
(* the target (0,0,20,10) give [6,0].                                      *)
C7_ContainmentOnly ==
    /\ (Done /\ ValidPartitions /\ ContainmentOnly)
       => \A t \in 1..Len(target_grid) :
             /\ rate_tgt[t] = Zeros(NumBins(fcst_rate))
             /\ map_rate[t] = [m \in 1..NumBins(fcst_rate) |->
                                  RSumOver(SourceColumn(m), SourcesWithin(t))]
    /\ (/\ Done
        /\ fcst_grid = << <<0, 0, 10, 10>>, <<10, 0, 20, 10>> >>
        /\ fcst_rate = << <<4, 0>>, <<2, 0>> >>
        /\ target_grid = << <<0, 0, 20, 10>> >>)
       => map_rate = << <<RInt(6), RInt(0)>> >>

\* the scenario of the claim, run to its end
C7_Witness ==
    /\ Done /\ ValidPartitions /\ ContainmentOnly
    /\ fcst_grid = << <<0, 0, 10, 10>>, <<10, 0, 20, 10>> >>
    /\ fcst_rate = << <<4, 0>>, <<2, 0>> >>
    /\ target_grid = << <<0, 0, 20, 10>> >>
    /\ exact_cells = <<1, 2>>

(* C8: area-weighted distribution.  The overlap rate of every target cell  *)
(* t is the sum, over the source cells left after the exact phase whose    *)
(* rectangle intersects t, of the source rate times the share              *)
(* area(s intersect t) / area(s) of the source cell's area that lies in t; *)
(* so too for a target grid offset by half a cell in both axes, where up   *)
(* to four source cells lie across a target cell.                          *)
C8_AreaWeighted ==
    Done => \A t \in 1..Len(target_grid), m \in Bins :
               rate_tgt[t][m] =
               RSumOver([s \in 1..Len(fcst_grid) |-> AreaShare(s, t, m)],
                        {s \in Remaining : intersects(fcst_grid[s], target_grid[t])})

\* a target cell that four source cells lie across, all four carrying rate
C8_Witness ==
    /\ Done
    /\ \E t \in 1..Len(target_grid) :
          /\ Cardinality({s \in Remaining : SharedArea(s, t) > 0}) = 4
          /\ \A s \in Remaining : fcst_rate[s][1] > 0
          /\ rate_tgt[t][1][1] > 0

(* C9: de-aggregation.  When a source cell is exactly tiled by two or more *)
(* target cells (non-overlapping partitions), it is not consumed, each of  *)
(* those target cells gets the source rate times its share of the source   *)
(* cell's area, and the shares add up to the source rate; source           *)
(* (0,0,10,10) with [8,0] split into (0,0,5,10) and (5,0,10,10) gives      *)
(* [4,0] to each.                                                          *)
C9_Deaggregation ==
    /\ (Done /\ ValidPartitions)
       => \A s \in 1..Len(fcst_grid), T \in SUBSET (1..Len(target_grid)) :
             (Cardinality(T) >= 2 /\ FootprintOf(target_grid, T) = Squares(fcst_grid[s]))
             => /\ s \notin Consumed
                /\ \A t \in T, m \in Bins :
                      map_rate[t][m] = Rat(fcst_rate[s][m] * CellArea(target_grid[t]),
                                           CellArea(fcst_grid[s]))
                /\ \A m \in Bins : RSumOver(TargetColumn(m), T) = RInt(fcst_rate[s][m])
    /\ (/\ Done
        /\ fcst_grid = << <<0, 0, 10, 10>> >>
        /\ fcst_rate = << <<8, 0>> >>
        /\ target_grid = << <<0, 0, 5, 10>>, <<5, 0, 10, 10>> >>)
       => map_rate = << <<RInt(4), RInt(0)>>, <<RInt(4), RInt(0)>> >>

\* the scenario of the claim, run to its end
C9_Witness ==
    /\ Done
    /\ fcst_grid = << <<0, 0, 10, 10>> >>
    /\ fcst_rate = << <<8, 0>> >>
    /\ target_grid = << <<0, 0, 5, 10>>, <<5, 0, 10, 10>> >>
    /\ exact_cells = <<>>
    /\ rate_tgt = map_rate

\* the source cells whose bounds lie within those of target cell t, by the
\* closed comparisons of the claim
ClosedInside(t) ==
    {s \in 1..Len(fcst_grid) :
        /\ fcst_grid[s][1] >= target_grid[t][1] /\ fcst_grid[s][2] >= target_grid[t][2]
        /\ fcst_grid[s][3] <= target_grid[t][3] /\ fcst_grid[s][4] <= target_grid[t][4]}

(* C10: exact-containment phase.  For every target cell t, the consumed    *)
(* indices returned are exactly the source cells with lon_min >= t.lon_min,*)
(* lat_min >= t.lat_min, lon_max <= t.lon_max and lat_max <= t.lat_max,    *)
(* each once, and the partial rate is the sum of the rates of exactly      *)
(* those cells: the zero vector of length mbins when there is none.        *)
C10_ExactPhase ==
    Done => \A t \in 1..Len(target_grid) :
               /\ Range(exact_rate[t][2]) = ClosedInside(t)
               /\ Len(exact_rate[t][2]) = Cardinality(ClosedInside(t))
               /\ exact_rate[t][1] = [m \in 1..NumBins(fcst_rate) |->
                                         RSumOver(SourceColumn(m), ClosedInside(t))]
               /\ ClosedInside(t) = {} => exact_rate[t][1] = Zeros(NumBins(fcst_rate))

\* one target cell contains two source cells that touch its boundary from
\* inside, another contains none and gets the zero vector of two bins
C10_Witness ==
    /\ Done /\ NumBins(fcst_rate) = 2
    /\ \E t \in 1..Len(target_grid) :
          /\ Len(exact_rate[t][2]) = 2
          /\ \A s \in Range(exact_rate[t][2]) :
                fcst_grid[s][1] = target_grid[t][1] /\ fcst_grid[s] # target_grid[t]
          /\ exact_rate[t][1][1][1] > 0
    /\ \E t \in 1..Len(target_grid) :
          exact_rate[t] = <<Zeros(2), <<>>>>


\* every cell of grid has positive extent
PositiveExtent(grid) == \A i \in 1..Len(grid) : grid[i][1] < grid[i][3] /\ grid[i][2] < grid[i][4]

(* C11: exclusive consumption.  When the target cells do not overlap in    *)
(* positive area (they may share edges) and every source cell has positive *)
(* extent, no source index is in the consumed list of more than one target *)
(* cell: the collected indices hold no index twice and no source rate is   *)
(* added to the exact rate of two target cells.                            *)
C11_ExclusiveConsumption ==
    (/\ Len(exact_rate) = Len(target_grid)
     /\ NonOverlapping(target_grid) /\ PositiveExtent(fcst_grid))
    => /\ \A t1, t2 \in 1..Len(target_grid) :
             t1 # t2 => Range(exact_rate[t1][2]) \cap Range(exact_rate[t2][2]) = {}
       /\ Len(exact_cells) = Cardinality(Range(exact_cells))
       /\ \A s \in 1..Len(fcst_grid) :
             Cardinality({t \in 1..Len(target_grid) : s \in Range(exact_rate[t][2])}) <= 1

\* two target cells sharing an edge, each consuming a source cell that
\* touches that edge
C11_Witness ==
    /\ Done /\ Len(target_grid) = 2
    /\ target_grid[1][3] = target_grid[2][1]
    /\ \E s1 \in Range(exact_rate[1][2]), s2 \in Range(exact_rate[2][2]) :
          /\ fcst_grid[s1][3] = target_grid[1][3]
          /\ fcst_grid[s2][1] = target_grid[2][1]
          /\ fcst_rate[s1][1] > 0 /\ fcst_rate[s2][1] > 0

RECURSIVE SquaresArea(_)
\* the area of a set of unit squares
SquaresArea(sq) ==
    IF sq = {} THEN 0
    ELSE LET q == CHOOSE x \in sq : TRUE
         IN geographical_area_from_bounds(q[1], q[2], q[1] + 1, q[2] + 1)
            + SquaresArea(sq \ {q})

\* p <= q for two rationals of positive denominator
RLeq(p, q) == p[1] * q[2] <= q[1] * p[2]

\* the rate of bin m of source cell s that lies inside the target footprint
InsideShare(m) ==
    [s \in 1..Len(fcst_grid) |->
        Rat(fcst_rate[s][m] * SquaresArea(Squares(fcst_grid[s]) \cap Footprint(target_grid)),
            CellArea(fcst_grid[s]))]

\* the target cells leave part of the source footprint uncovered
PartialCoverage ==
    /\ ValidPartitions /\ Len(target_grid) > 0
    /\ ~(Footprint(fcst_grid) \subseteq Footprint(target_grid))

(* C12: partial coverage.  For non-overlapping source and target           *)
(* partitions where the target cells do not cover the whole source         *)
(* footprint, the remapped rate summed over the target cells equals, bin   *)
(* by bin, the area-weighted part of the source rate that lies inside the  *)
(* target footprint, so it never exceeds the summed source rate; the       *)
(* remainder is dropped and the call ends without an error.                *)
C12_PartialCoverage ==
    PartialCoverage
    => /\ pc # "error"
       /\ Done => \A m \in Bins :
                     /\ RSumOver(TargetColumn(m), 1..Len(target_grid))
                        = RSumOver(InsideShare(m), 1..Len(fcst_grid))
                     /\ RLeq(RSumOver(TargetColumn(m), 1..Len(target_grid)),
                             RSumOver(SourceColumn(m), 1..Len(fcst_grid)))

\* a source cell lies across the edge of the target footprint: part of its
\* rate arrives, part is dropped
C12_Witness ==
    /\ Done /\ PartialCoverage
    /\ \E s \in 1..Len(fcst_grid) :
          /\ fcst_rate[s][1] > 0
          /\ Squares(fcst_grid[s]) \cap Footprint(target_grid) # {}
          /\ ~(Squares(fcst_grid[s]) \subseteq Footprint(target_grid))
    /\ RSumOver(TargetColumn(1), 1..Len(target_grid))
       # RSumOver(SourceColumn(1), 1..Len(fcst_grid))
    /\ RSumOver(TargetColumn(1), 1..Len(target_grid))[1] > 0

(* C13: empty target partition.  A call with a target partition of zero    *)
(* cells raises no error and returns an empty result: no rate vectors.     *)
C13_EmptyTarget ==
    Len(target_grid) = 0
    => /\ pc # "error"
       /\ pc \in {"return", "done"} => map_rate = <<>>

\* no source cell shares area with any target cell
NoSharedArea ==
    \A s \in 1..Len(fcst_grid), t \in 1..Len(target_grid) :
        ~Overlap(fcst_grid[s], target_grid[t])

\* no source cell has a point in common with any target cell
Apart ==
    \A s \in 1..Len(fcst_grid), t \in 1..Len(target_grid) :
        ~intersects(fcst_grid[s], target_grid[t])

(* C14: disjoint footprints.  When no source cell is contained in or       *)
(* intersects any target cell (the cells lie apart, or at most touch       *)
(* without sharing area), the call raises no error and returns one row per *)
(* target cell with M entries, all of them zero.                           *)
C14_DisjointFootprints ==
    (NoSharedArea /\ Len(target_grid) > 0)
    => /\ pc # "error"
       /\ Done => /\ Len(map_rate) = Len(target_grid)
                  /\ \A t \in 1..Len(target_grid) : map_rate[t] = Zeros(NumBins(fcst_rate))
                  /\ target_forecast.data = map_rate

\* source cells with rate and two target cells lying apart from them
C14_Witness ==
    /\ Done /\ Apart
    /\ Len(target_grid) = 2 /\ Len(fcst_grid) = 2 /\ NumBins(fcst_rate) = 2
    /\ \A s \in 1..Len(fcst_grid) : fcst_rate[s][1] > 0
    /\ rate_tgt = <<Zeros(2), Zeros(2)>>
    /\ map_rate = <<Zeros(2), Zeros(2)>>

\* a cell no partition may hold
Malformed(cell) ==
    \/ cell[1] >= cell[3]
    \/ cell[2] >= cell[4]
    \/ cell[2] < 0 - 90 \/ cell[2] > 90
    \/ cell[4] < 0 - 90 \/ cell[4] > 90

\* the call has done no work of any phase and has returned nothing
NoWorkDone ==
    /\ phase = 0 /\ pools_created = {}
    /\ queue = <<>> /\ running = {} /\ finished = <<>>
    /\ pc \notin {"return", "done"}
    /\ map_rate = <<>> /\ target_forecast = <<>>

(* C15: malformed cells are rejected at once.  If a source or target cell  *)
(* has lon_min >= lon_max, lat_min >= lat_max or a latitude outside        *)
(* [-90, 90], the call reports an error before the exact-containment phase *)
(* starts: no pool is created, no per-target task is started and no result *)
(* is returned.                                                            *)
C15_MalformedRejected ==
    (\/ \E s \in 1..Len(fcst_grid) : Malformed(fcst_grid[s])
     \/ \E t \in 1..Len(target_grid) : Malformed(target_grid[t]))
    => NoWorkDone

(* C16: a shape mismatch is rejected at once.  If the rate matrix has not  *)
(* one row per source cell, the call reports an error before any work of   *)
(* any phase begins, and it never returns a rate matrix.                   *)
C16_ShapeMismatchRejected ==
    Len(fcst_rate) # Len(fcst_grid)
    => /\ phase = 0 /\ pools_created = {} /\ running = {}
       /\ pc \notin {"return", "done"} /\ map_rate = <<>>

(* C17: the inputs are not mutated.  No step of forecast_mapping and       *)
(* _forecast_mapping_generic changes the caller's source cell bounds,      *)
(* source rate matrix or target cell bounds: the removal of consumed cells *)
(* and the zero-padding act on working copies and on the new result, so    *)
(* the values at return are those at the call.                             *)
C17_InputsNotMutated ==
    [][/\ fcst_grid' = fcst_grid
       /\ fcst_rate' = fcst_rate
       /\ target_grid' = target_grid]_vars

\* a finished call in which consumed cells were taken out of the working
\* copies and an overlap rate was replaced by zeros
C17_Witness ==
    /\ Done
    /\ exact_cells # <<>>
    /\ Len(lft_fcst_grid) < Len(fcst_grid)
    /\ Len(fcst_rate_poly) < Len(fcst_rate)
    /\ \E t \in 1..Len(target_grid) :
          Len(slots[t]) < NumBins(fcst_rate) /\ Len(rate_tgt[t]) = NumBins(fcst_rate)

\* the call of fn has ended
Ended(f) == fn = f /\ fn_result.status # "pending"

\* the argument is given (not None)
Given(x) == x.type # "NoneType"

\* the argument combinations the docstring of time_windows_td lists
DocumentedCombination(a) ==
    /\ Given(a.start_date)
    /\ Given(a.timehorizon) => HorizonParses(a.timehorizon.val)
    /\ \/ Given(a.end_date) /\ Given(a.timeintervals) /\ ~Given(a.timehorizon)
          /\ ~Given(a.timeoffset)
       \/ Given(a.end_date) /\ ~Given(a.timeintervals) /\ Given(a.timehorizon)
       \/ ~Given(a.end_date) /\ Given(a.timeintervals) /\ Given(a.timehorizon)

(* C18: time_windows_td returns the testing windows.  For each documented  *)
(* argument combination (such as start_date, end_date and timeintervals)   *)
(* the call returns a list of (lower, upper) datetime pairs, one per       *)
(* testing window; it never returns None.                                  *)
C18_WindowsReturned ==
    (Ended("time_windows_td") /\ DocumentedCombination(fn_args))
    => /\ fn_result.status = "returned"
       /\ fn_result.value.type = "list"
       /\ \A k \in 1..Len(fn_result.value.val) :
             /\ Len(fn_result.value.val[k]) = 2
             /\ fn_result.value.val[k][1] <= fn_result.value.val[k][2]
       /\ Given(fn_args.timeintervals)
          => Len(fn_result.value.val) = fn_args.timeintervals.val

\* f'{n}' of a numeric window
FormatNumber(window) ==
    IF window.type = "int" THEN FormatInt(window.val) ELSE FormatFloat(window.val)

(* C19: parse_timedelta_string formats a numeric window.  For every window *)
(* n given as an int or a float the call returns the string 'n-years' when *)
(* exp_class is 'ti' and 'n-days' otherwise; the result is never None.     *)
C19_NumericWindow ==
    (Ended("parse_timedelta_string") /\ fn_args.window.type \in {"int", "float"})
    => /\ fn_result.status = "returned"
       /\ fn_result.value.type = "str"
       /\ fn_result.value.val =
             FormatNumber(fn_args.window)
             \o (IF fn_args.exp_class = "ti" THEN <<"-", "y", "e", "a", "r", "s">>
                 ELSE <<"-", "d", "a", "y", "s">>)

\* the target modules that hold the attribute a name leads to
ModulesHolding(contents, name) ==
    {m \in 1..Len(target_modules) : Split(name, ".") \in contents[m]}

(* C20: parse_csep_func lookup.  Given a callable the call returns that    *)
(* same object; given a (possibly dotted) name it returns the attribute of *)
(* the first module in the fixed search order that has it, and it raises   *)
(* AttributeError if and only if no module of the list has it.             *)
C20_Lookup ==
    Ended("parse_csep_func")
    => /\ Callable(fn_args.func)
          => fn_result.status = "returned" /\ fn_result.value = fn_args.func
       /\ fn_args.func.type = "str"
          => LET holding == ModulesHolding(fn_args.contents, fn_args.func.val)
             IN /\ (fn_result.status = "raised") <=> (holding = {})
                /\ fn_result.status = "raised" => fn_result.value.type = "AttributeError"
                /\ holding # {}
                   => /\ fn_result.status = "returned"
                      /\ fn_result.value =
                            PyObject(MinOf(holding), Split(fn_args.func.val, "."))

\* a dotted name that the first module cannot follow to its end and two
\* later modules can: the earlier of the two answers
C20_Witness ==
    /\ Ended("parse_csep_func")
    /\ fn_args.func = PyStr(<<"g", ".", "h">>)
    /\ fn_args.contents[1] = {<< <<"g">> >>}
    /\ ModulesHolding(fn_args.contents, fn_args.func.val) = {3, 6}
    /\ fn_result = Returned(PyObject(3, << <<"g">>, <<"h">> >>))

\* the exact-containment tasks of all target cells have finished
ExactPhaseComplete ==
    exact_rate = [i \in 1..Len(target_grid) |->
                     map_exact_inside_cells(fcst_grid, fcst_rate, target_grid[i])]

\* the consumed indices have been assembled and taken out of the source
ConsumedRemoved ==
    /\ exact_cells = CollectCells(exact_rate)
    /\ lft_fcst_grid = Delete(fcst_grid, exact_cells)
    /\ fcst_rate_poly = Delete(fcst_rate, exact_cells)

(* C21: phase barrier.  In every execution no overlap task of any target   *)
(* cell starts before the exact-containment tasks of all target cells have *)
(* finished and the consumed indices have been assembled, and the phases   *)
(* run in the fixed order exact containment, removal of consumed cells,    *)
(* overlap distribution, merge.                                            *)
C21_PhaseBarrier ==
    /\ [](/\ (phase >= 2 \/ (phase = 1 /\ pc \in {"close", "collect"}))
             => ExactPhaseComplete
          /\ phase >= 2 => ConsumedRemoved
          /\ pc = "collect" => phase = 1
          /\ (phase = 5 /\ (running # {} \/ finished # <<>>))
             => ExactPhaseComplete /\ ConsumedRemoved
          /\ pc \in {"merge", "return", "done"}
             => /\ phase = 5
                /\ Len(rate_tgt) = Len(target_grid)
                /\ \A i \in 1..Len(rate_tgt) : rate_tgt[i] # <<>>)
    /\ [][phase' = phase \/ phase' = phase + 1]_vars

\* an overlap task is running after the exact phase consumed a cell and
\* left another
C21_Witness ==
    /\ phase = 5 /\ pc = "map"
    /\ running # {}
    /\ exact_cells # <<>> /\ lft_fcst_grid # <<>>
    /\ ExactPhaseComplete

-----------------------------------------------------------------------------
\* the source indices no target cell consumed in the exact phase
Unconsumed ==
    {s \in 1..Len(fcst_grid) :
        \A t \in 1..Len(exact_rate) : s \notin Range(exact_rate[t][2])}

RECURSIVE Ascending(_)
\* the members of a set of indices in ascending order
Ascending(idx) ==
    IF idx = {} THEN <<>>
    ELSE LET lo == CHOOSE x \in idx : \A y \in idx : x <= y
         IN <<lo>> \o Ascending(idx \ {lo})

(* C22: removal of consumed cells.  The source cells handed to the overlap *)
(* phase are exactly those whose index no target cell consumed, in their   *)
(* original relative order; the remaining bounds, rates, polygons and cell *)
(* areas are aligned index by index; and a consumed cell contributes to no *)
(* target cell in the overlap phase: every overlap rate is the sum of the  *)
(* area shares of the unconsumed cells alone.                              *)
C22_ConsumedRemoved ==
    Done =>
       LET kept == Ascending(Unconsumed)
       IN /\ lft_fcst_grid = [k \in 1..Len(kept) |-> fcst_grid[kept[k]]]
          /\ fcst_rate_poly = [k \in 1..Len(kept) |-> fcst_rate[kept[k]]]
          /\ fcst_grid_poly = [k \in 1..Len(kept) |-> create_polygon(fcst_grid[kept[k]])]
          /\ fcst_cell_area = [k \in 1..Len(kept) |-> CellArea(fcst_grid[kept[k]])]
          /\ \A t \in 1..Len(target_grid), m \in Bins :
                rate_tgt[t][m] =
                   RSumOver([s \in 1..Len(fcst_grid) |-> AreaShare(s, t, m)], Unconsumed)

\* a consumed cell lies between two cells that remain, and a consumed cell
\* with a positive rate lies inside a target cell that also gets a positive
\* overlap rate from a remaining cell
C22_Witness ==
    /\ Done
    /\ \E a, b, c \in 1..Len(fcst_grid) :
          a < b /\ b < c /\ a \in Unconsumed /\ b \notin Unconsumed /\ c \in Unconsumed
    /\ \E t \in 1..Len(target_grid) :
          /\ \E s \in Range(exact_rate[t][2]) : fcst_rate[s][1] > 0
          /\ rate_tgt[t][1][1] > 0

-----------------------------------------------------------------------------
\* source cell s and target cell t meet along an edge or at a corner only
Touching(s, t) ==
    /\ intersects(create_polygon(target_grid[t]), create_polygon(fcst_grid[s]))
    /\ ~Overlap(fcst_grid[s], target_grid[t])

\* what the overlap loop of target cell t adds for the k-th remaining cell
OverlapTerm(k, t) ==
    LET ib == intersection_bounds(target_grid_poly[t], fcst_grid_poly[k])
    IN VecScale([m \in 1..Len(fcst_rate_poly[k]) |-> RInt(fcst_rate_poly[k][m])],
                Rat(geographical_area_from_bounds(ib[1], ib[2], ib[3], ib[4]),
                    fcst_cell_area[k]))

(* C23: zero-area intersections contribute nothing.  When a remaining      *)
(* source cell and a target cell share only an edge or a corner, the       *)
(* overlap phase adds exactly the zero vector for that source cell, the    *)
(* overlap rate of the target cell is the sum over the cells it shares     *)
(* area with, and the call raises no error.                                *)
C23_ZeroAreaIntersections ==
    LET kept == Ascending(Unconsumed)
    IN (Len(target_grid) > 0 /\ pc # "create"
        /\ \E k \in 1..Len(kept), t \in 1..Len(target_grid) : Touching(kept[k], t))
       => /\ Done
          /\ \A k \in 1..Len(kept), t \in 1..Len(target_grid) :
                Touching(kept[k], t) => OverlapTerm(k, t) = Zeros(NumBins(fcst_rate))
          /\ \A t \in 1..Len(target_grid), m \in Bins :
                rate_tgt[t][m] =
                   RSumOver([s \in 1..Len(fcst_grid) |-> AreaShare(s, t, m)],
                            {s \in Unconsumed : ~Touching(s, t)})

\* a target cell meets one remaining cell with a positive rate along an
\* edge and another at a corner, and its overlap rate is zero
C23_Witness ==
    /\ Done
    /\ \E t \in 1..Len(target_grid), s1, s2 \in Unconsumed :
          /\ Touching(s1, t) /\ Touching(s2, t)
          /\ fcst_rate[s1][1] > 0 /\ fcst_rate[s2][1] > 0
          /\ fcst_grid[s1][3] = target_grid[t][1] /\ fcst_grid[s1][2] = target_grid[t][2]
          /\ fcst_grid[s2][3] = target_grid[t][1] /\ fcst_grid[s2][4] = target_grid[t][2]
          /\ rate_tgt[t] = Zeros(NumBins(fcst_rate))

-----------------------------------------------------------------------------
\* the remaining source cells the overlap loop of target cell t enters
Entered(t) ==
    {k \in 1..Len(fcst_grid_poly) : intersects(target_grid_poly[t], fcst_grid_poly[k])}

(* C24: zero-filling.  After the overlap phase and the padding, every      *)
(* target cell has an overlap rate of exactly as many entries as the       *)
(* source has magnitude bins, for one bin and for more; the rate is all    *)
(* zero for a target cell that intersects no remaining source cell, also   *)
(* when no source cell remains; so the element-wise sum of the merge is    *)
(* defined for every target cell.                                          *)
C24_ZeroFilling ==
    Done =>
       /\ Len(rate_tgt) = Len(target_grid)
       /\ \A t \in 1..Len(target_grid) :
             /\ Len(rate_tgt[t]) = NumBins(fcst_rate)
             /\ Entered(t) = {}
                => /\ slots[t] = <<RZero>>
                   /\ rate_tgt[t] = Zeros(NumBins(fcst_rate))
             /\ lft_fcst_grid = <<>> => rate_tgt[t] = Zeros(NumBins(fcst_rate))
             /\ Len(exact_rate_tgt[t]) = Len(rate_tgt[t])
             /\ map_rate[t] = [m \in Bins |-> RAdd(rate_tgt[t][m], exact_rate_tgt[t][m])]

\* two magnitude bins; source cells with positive rates remain, a target
\* cell intersects none of them and was padded from one zero to two
C24_Witness ==
    /\ Done /\ NumBins(fcst_rate) = 2
    /\ lft_fcst_grid # <<>>
    /\ \E k \in 1..Len(fcst_rate_poly) : fcst_rate_poly[k][1] > 0
    /\ \E t \in 1..Len(target_grid) :
          /\ Entered(t) = {} /\ Len(slots[t]) = 1
          /\ rate_tgt[t] = <<RZero, RZero>>
          /\ map_rate[t] = <<RZero, RZero>>

-----------------------------------------------------------------------------
(* C25: termination.  Under fair scheduling of the calling process and the *)
(* workers, every call on a source partition and a target partition of at  *)
(* least one cell eventually completes both phases and returns; and no     *)
(* task waits on another task of its phase: every running task can finish  *)
(* whatever the other tasks have done.                                     *)
C25_Termination ==
    /\ []((pc = "map" /\ running # {}) => \A i \in running : TaskReady(i, finished))
    /\ (Len(target_grid) > 0 /\ pc = "create" /\ phase = 0) ~> Done

\* a call by two workers has returned, the second overlap task having
\* finished before the first
C25_Witness ==
    /\ Done /\ ncpu = 2 /\ phase = 5
    /\ Len(finished) >= 2 /\ finished[1] = 2 /\ finished[2] = 1
    /\ target_forecast.data = map_rate

-----------------------------------------------------------------------------
\* the rectangles the area calculator was called on: the remaining source
\* cells (calc_cell_area) and the bounds of every intersection the overlap
\* loop entered
AreaCalls ==
    Range(lft_fcst_grid)
    \cup {intersection_bounds(target_grid_poly[p[1]], fcst_grid_poly[p[2]]) :
             p \in {q \in (1..Len(target_grid_poly)) \X (1..Len(fcst_grid_poly)) :
                       intersects(target_grid_poly[q[1]], fcst_grid_poly[q[2]])}}

(* C26: area-calculator precondition.  Every rectangle the area calculator *)
(* is called on, a whole remaining source cell or the bounds of an         *)
(* intersection, has lon_min < lon_max and lat_min < lat_max: it is never  *)
(* called on a rectangle without width or without height.                  *)
C26_AreaPrecondition ==
    Done => \A r \in AreaCalls : r[1] < r[3] /\ r[2] < r[4]

-----------------------------------------------------------------------------
\* the configuration of the call holds an experiment class
ConfigHasClass ==
    /\ fn_args.time_config.type = "dict"
    /\ fn_args.time_config.val.exp_class.type # "absent"

(* C27: read_time_config honours the class of the configuration.  When     *)
(* time_config holds exp_class = 'td' and no exp_class keyword argument is *)
(* passed, the configuration returned still has exp_class = 'td' and its   *)
(* time windows are built by time_windows_td; the class is 'ti' by         *)
(* fallback only when neither time_config nor the keyword arguments        *)
(* provide one.                                                            *)
C27_ConfiguredClass ==
    (Ended("read_time_config") /\ fn_result.status = "returned")
    => /\ (/\ ConfigHasClass
           /\ fn_args.time_config.val.exp_class = ClassTD
           /\ fn_args.kwargs.exp_class.type = "absent")
          => /\ fn_result.value.type = "dict"
             /\ fn_result.value.val.exp_class = ClassTD
             /\ WindowsBuilder(fn_args.time_config, fn_args.kwargs) = "time_windows_td"
       /\ (/\ ~ConfigHasClass
           /\ fn_args.kwargs.exp_class.type = "absent")
          => /\ fn_result.value.val.exp_class = ClassTI
             /\ WindowsBuilder(fn_args.time_config, fn_args.kwargs) = "time_windows_ti"

-----------------------------------------------------------------------------
\* a finished call of time_windows_ti with growth 'incremental', a start
\* date, a later end date and no horizon
IncrementalSpan ==
    /\ Ended("time_windows_ti")
    /\ fn_args.growth = Incremental
    /\ Given(fn_args.start_date) /\ Given(fn_args.end_date)
    /\ ~Given(fn_args.horizon)

(* C28: time_windows_ti with growth 'incremental', a start date, an end    *)
(* date and intervals = n >= 1 returns exactly n windows that partition    *)
(* the span of the experiment: the first window starts at start_date, the  *)
(* last ends at end_date, the upper bound of every window is the lower     *)
(* bound of the next, and every window has lower < upper; with neither     *)
(* intervals nor horizon it returns the single window                      *)
(* (start_date, end_date).                                                 *)
C28_IncrementalWindows ==
    IncrementalSpan =>
       LET w == fn_result.value.val
           n == fn_args.intervals.val
       IN /\ (fn_args.intervals.type = "int" /\ fn_args.intervals.val >= 1)
             => /\ fn_result.status = "returned"
                /\ fn_result.value.type = "list"
                /\ Len(w) = n
                /\ w[1][1] = fn_args.start_date.val
                /\ w[n][2] = fn_args.end_date.val
                /\ \A k \in 1..(n - 1) : w[k][2] = w[k + 1][1]
                /\ \A k \in 1..n : w[k][1] < w[k][2]
          /\ ~Given(fn_args.intervals)
             => /\ fn_result.status = "returned"
                /\ fn_result.value.type = "list"
                /\ w = << <<fn_args.start_date.val, fn_args.end_date.val>> >>

\* three windows of equal length between a start that is not the epoch
\* and the end
C28_Witness ==
    /\ IncrementalSpan
    /\ fn_args.intervals = PyInt(3)
    /\ fn_args.start_date = PyDate(2 * HoursPerDay)
    /\ fn_args.end_date = PyDate(12 * HoursPerDay)
    /\ fn_result.status = "returned"
    /\ fn_result.value.val =
          << <<48, 128>>, <<128, 208>>, <<208, 288>> >>

-----------------------------------------------------------------------------
\* the call registers an entry in the table of contents
Registers(c) ==
    c.method = "add_figure" \/ (c.method = "add_heading" /\ c.add_toc)

\* the entries the calls so far registered, in call order
Registered ==
    LET r == SelectSeq(calls, Registers)
    IN [k \in 1..Len(r) |-> <<r[k].title, r[k].level, Locator(r[k].title)>>]

\* a title was added with add_title
TitleAdded == \E k \in 1..Len(calls) : calls[k].method = "add_title"

\* the positions of the document that hold a table of contents
TocCells == {k \in 1..Len(markdown) : markdown[k].kind = "toc"}

\* table_of_contents was called once, as the last call so far
TocCalled ==
    /\ fn = "MarkdownReport"
    /\ calls # <<>>
    /\ calls[Len(calls)].method = "table_of_contents"
    /\ \A k \in 1..(Len(calls) - 1) : calls[k].method # "table_of_contents"

(* C29: placement of the table of contents.  After any sequence of         *)
(* add_introduction, add_text, add_heading, add_figure, add_list,          *)
(* add_table and add_title calls, table_of_contents leaves the document as *)
(* it is when no heading or figure was registered, and otherwise inserts   *)
(* one block that lists the registered entries in call order, never the    *)
(* title of add_title: at position 1 of the document when a title was      *)
(* added with add_title, at position 0 when none was.                      *)
C29_TocPlacement ==
    TocCalled =>
       IF Registered = <<>>
       THEN TocCells = {} /\ Len(markdown) = Len(calls) - 1
       ELSE /\ TocCells = {IF TitleAdded THEN 2 ELSE 1}
            /\ Len(markdown) = Len(calls)
            /\ \A k \in TocCells :
                  markdown[k].body =
                     [j \in 1..Len(Registered) |->
                         <<3 * (Registered[j][2] - 1), Registered[j][1], Registered[j][3]>>]

-----------------------------------------------------------------------------
(* C30: worker-pool lifecycle.  During one call at most one worker pool    *)
(* accepts work at any time; tasks wait or run only in the pool that is    *)
(* open; each of the five pools is closed before the next one is created;  *)
(* and when the call returns normally every pool it created has been       *)
(* closed.                                                                 *)
C30_PoolLifecycle ==
    /\ [](/\ Cardinality(pools_open) <= 1
          /\ pools_open \subseteq pools_created
          /\ (queue # <<>> \/ running # {}) => pools_open = {phase}
          /\ pc = "create" => pools_open = {}
          /\ Done => (pools_open = {} /\ pools_created = 1..5))
    /\ [][pools_created' # pools_created
          => /\ pools_open = {}
             /\ pools_created' = pools_created \cup {phase + 1}
             /\ pools_open' = {phase + 1}]_vars

\* the third pool is the only open one of the three created so far and one
\* of its tasks is running
C30_Witness ==
    /\ pc = "map" /\ phase = 3
    /\ pools_created = {1, 2, 3} /\ pools_open = {3}
    /\ running # {}

=============================================================================
